---- MODULE Spec2Model ----
(***************************************************************************)
(* Job-App-Assistant: the relational store (infra/supabase/schema.sql),    *)
(* the shared request/entity schemas (packages/shared-types), the API      *)
(* client (apps/frontend/src/lib/api.ts) and the dashboard pages.          *)
(*                                                                         *)
(* Tables are sets of rows, so that a broken uniqueness constraint is a    *)
(* state the model can be in.  Columns that no constraint, policy, trigger *)
(* or handler reads (title, company, location, source_url, deadline_at,    *)
(* notes, pdf_path, created_at) are left out of the rows; updated_at,      *)
(* which the BEFORE UPDATE triggers stamp and nothing reads, is kept on    *)
(* outreach_contacts, the one table a foreign key of jobs updates.         *)
(***************************************************************************)
EXTENDS Integers, Sequences, FiniteSets, TLC

VARIABLES
    users,              \* TABLE users
    actions,            \* TABLE actions
    issued,             \* the ids uuid_generate_v4() has given to jobs rows
    now,                \* the store's clock, NOW()
    jobs,               \* TABLE jobs
    resume_master,      \* TABLE resume_master
    resume_variant,     \* TABLE resume_variant
    cover_letters,      \* TABLE cover_letters
    outreach_contacts,  \* TABLE outreach_contacts
    pc,                 \* in-flight request handlers, one slot per connection
    last,               \* the response most recently sent by the API
    hist                \* what the last successful upload of each user derived

vars == <<users, actions, issued, now, jobs, resume_master, resume_variant, cover_letters,
          outreach_contacts, pc, last, hist>>

tables == <<jobs, resume_master, resume_variant, cover_letters, outreach_contacts>>

-----------------------------------------------------------------------------
(* Values *)

\* SQL NULL / JSON null, one value per column type (TLC compares values of
\* one type only)
NULL == "NULL"                  \* of a TEXT or UUID-of-user column
NullId == 0                     \* of a UUID column; ids are 1, 2, ...
NullText == <<"NULL">>          \* of a column holding a text (a sequence)
NullJson == [null |-> TRUE]     \* of a JSONB column or a JSON body
Absent == "undefined"   \* a field the request body does not carry

Users == {"A", "B"}

\* packages/shared-types: the closed vocabularies
JobStatusSchema == {"Not Applied", "Applied", "Interview", "Offer", "Rejected"}
ApplicationStatusSchema == {"Not Sent", "Sent", "Waiting"}
ConnectionStatusSchema == {"No Connection", "Reached Out", "Connected"}
ContactStatusSchema == {"Not Contacted", "Reached Out", "Connected", "Not Interested"}

Field(req, f) == IF f \in DOMAIN req THEN req[f] ELSE Absent

Idle == [op |-> "idle"]

\* a response: the operation, the caller, the outcome of section 7's taxonomy
\* ("ok" when none applies), whether the request addressed a row the caller
\* can see, and whether it carried a value outside a closed vocabulary
Response(op, uid, outcome, hit, outside) ==
    [op |-> op, user |-> uid, outcome |-> outcome, hit |-> hit, outside |-> outside,
     body |-> NullJson]

\* a response that carries a body
Reply(op, uid, outcome, body) ==
    [op |-> op, user |-> uid, outcome |-> outcome, hit |-> body # NullJson, outside |-> FALSE,
     body |-> body]

NoResponse == Response("none", NULL, "none", FALSE, FALSE)

-----------------------------------------------------------------------------
(* TABLE jobs: column defaults, NOT NULL and CHECK constraints, RLS policy *)

\* user_id UUID NOT NULL REFERENCES users(id)
UsersFk(uid) == uid \in users

\* a value outside the vocabulary, as the CHECK constraints see it
JobsCheckMutant(row) ==
    /\ row.status \in {"Not Applied", "Applied", "Interview", "Offer", "Rejected", "Sent"}
    /\ row.application_status \in {"Not Sent", "Sent", "Waiting"}
    /\ row.connection_status \in {"No Connection", "Reached Out", "Connected"}

JobsCheck(row) ==
    /\ row.status \in {"Not Applied", "Applied", "Interview", "Offer", "Rejected"}
    /\ row.application_status \in {"Not Sent", "Sent", "Waiting"}
    /\ row.connection_status \in {"No Connection", "Reached Out", "Connected"}

JobsNotNull(row) ==
    /\ row.user_id # NULL
    /\ row.jd_raw # NullText
    /\ row.status # NULL
    /\ row.application_status # NULL
    /\ row.connection_status # NULL

\* the row an INSERT builds: absent columns take their DEFAULT
JobsInsertRow(uid, id, req) ==
    [id |-> id,
     user_id |-> uid,
     jd_raw |-> IF "jd_raw" \in DOMAIN req THEN req.jd_raw ELSE NullText,
     jd_spans_json |-> IF "jd_spans_json" \in DOMAIN req THEN req.jd_spans_json ELSE NullJson,
     status |-> IF Field(req, "status") = Absent THEN "Not Applied" ELSE req.status,
     application_status |->
         IF Field(req, "application_status") = Absent THEN "Not Sent" ELSE req.application_status,
     connection_status |->
         IF Field(req, "connection_status") = Absent THEN "No Connection" ELSE req.connection_status]

\* the row an UPDATE builds: the columns the statement sets are replaced
JobsUpdateRow(row, req) ==
    [f \in DOMAIN row |-> IF f \in DOMAIN req THEN req[f] ELSE row[f]]

PolicyJobsMutant(uid, row) == TRUE

\* POLICY "Users can manage own jobs" ON jobs FOR ALL USING (auth.uid() = user_id)
PolicyJobs(uid, row) == uid = row.user_id

\* the rows of jobs a statement run for uid can see
VisibleJobs(uid) == {r \in jobs : PolicyJobs(uid, r)}

JobById(uid, id) == {r \in VisibleJobs(uid) : r.id = id}


-----------------------------------------------------------------------------
(* JDSpanSchema: three arrays of [number, number] tuples *)

SpanCategories == {"requirements", "responsibilities", "nice_to_haves"}

IsNumberPair(p) == Len(p) = 2 /\ p[1] \in Int /\ p[2] \in Int

JDSpanSchema(v) ==
    /\ DOMAIN v = SpanCategories
    /\ \A c \in SpanCategories : \A i \in 1..Len(v[c]) : IsNumberPair(v[c][i])

\* JobSchema, on the fields a request body carries
JobSchemaFields(req) ==
    /\ "jd_spans_json" \in DOMAIN req =>
           (req.jd_spans_json = NullJson \/ JDSpanSchema(req.jd_spans_json))

\* the request names a value outside one of the three closed vocabularies
OutsideVocabulary(req) ==
    \/ Field(req, "status") \notin JobStatusSchema \cup {Absent}
    \/ Field(req, "application_status") \notin ApplicationStatusSchema \cup {Absent}
    \/ Field(req, "connection_status") \notin ConnectionStatusSchema \cup {Absent}

-----------------------------------------------------------------------------
(* jobsApi.create / jobsApi.update / jobsApi.delete against the store *)

\* POST /api/jobs: one INSERT
CreateJob(uid, id, req) ==
    LET row == JobsInsertRow(uid, id, req) IN
    /\ id \notin issued                     \* uuid_generate_v4(): a fresh id
    /\ IF /\ JobSchemaFields(req) /\ JobsNotNull(row) /\ JobsCheck(row)
          /\ PolicyJobs(uid, row) /\ UsersFk(uid)
       THEN /\ jobs' = jobs \cup {row}
            /\ issued' = issued \cup {id}
            /\ last' = Response("jobs.create", uid, "ok", TRUE, OutsideVocabulary(req))
       ELSE /\ UNCHANGED <<jobs, issued>>
            /\ last' = Response("jobs.create", uid, "ValidationError", TRUE, OutsideVocabulary(req))
    /\ UNCHANGED <<users, actions, now, resume_master, resume_variant, cover_letters, outreach_contacts, pc, hist>>

\* PATCH /api/jobs/{id}: one UPDATE ... WHERE id = {id}
UpdateJob(uid, id, req) ==
    LET hit == JobById(uid, id) IN
    /\ IF hit = {}
       THEN /\ jobs' = jobs
            /\ last' = Response("jobs.update", uid, "NotFoundError", FALSE, OutsideVocabulary(req))
       ELSE LET old == CHOOSE r \in hit : TRUE
                row == JobsUpdateRow(old, req) IN
            IF JobSchemaFields(req) /\ JobsNotNull(row) /\ JobsCheck(row) /\ PolicyJobs(uid, row)
            THEN /\ jobs' = (jobs \ {old}) \cup {row}
                 /\ last' = Response("jobs.update", uid, "ok", TRUE, OutsideVocabulary(req))
            ELSE /\ jobs' = jobs
                 /\ last' = Response("jobs.update", uid, "ValidationError", TRUE, OutsideVocabulary(req))
    /\ UNCHANGED <<users, actions, issued, now, resume_master, resume_variant, cover_letters, outreach_contacts, pc, hist>>

-----------------------------------------------------------------------------
(* jobsApi.analyzeJD and the text-understanding collaborator *)

AnalyzeJDRequestSchemaMutant(req) == Len(req.jd_text) >= 0

\* AnalyzeJDRequestSchema: jd_text is z.string().min(1), job_id is optional
AnalyzeJDRequestSchema(req) == Len(req.jd_text) >= 1

\* The collaborator's contract: spans are half-open offset pairs into the
\* text it was given.
ValidPairs(text) == {<<a, b>> : a \in 0..Len(text), b \in 0..Len(text)} \ 
                    {<<a, b>> \in (0..Len(text)) \X (0..Len(text)) : a >= b}

SpanLists(text) == {<< >>} \cup {<<p>> : p \in ValidPairs(text)}

AnalyzeSpans(text) ==
    [requirements : SpanLists(text),
     responsibilities : SpanLists(text),
     nice_to_haves : {<< >>}]

AnalyzeTargetsMutant(uid, job_id) ==
    IF job_id = NullId THEN VisibleJobs(uid) ELSE JobById(uid, job_id)

\* the rows an analysis is stored on: the job named, none without a job_id
AnalyzeTargets(uid, job_id) ==
    IF job_id = NullId THEN {} ELSE JobById(uid, job_id)

JobsAfterFailedAnalysisMutant(uid, job_id, jd_text) ==
    {IF r \in AnalyzeTargets(uid, job_id) THEN JobsUpdateRow(r, [jd_raw |-> jd_text])
     ELSE r : r \in jobs}

\* the collaborator failed: the request has written nothing
JobsAfterFailedAnalysis(uid, job_id, jd_text) == jobs

\* POST /api/jobs/analyze-jd.  With a job_id the analysed text and its spans
\* are stored on that job; without one nothing is stored.  NullId stands for
\* a request without job_id.
AnalyzeJD(uid, jd_text, job_id) ==
    /\ IF ~AnalyzeJDRequestSchema([jd_text |-> jd_text])
       THEN /\ jobs' = jobs
            /\ last' = Response("jobs.analyzeJD", uid, "ValidationError", FALSE, FALSE)
       ELSE IF job_id # NullId /\ JobById(uid, job_id) = {}
       THEN /\ jobs' = jobs
            /\ last' = Response("jobs.analyzeJD", uid, "NotFoundError", FALSE, FALSE)
       ELSE \/ /\ jobs' = JobsAfterFailedAnalysis(uid, job_id, jd_text)
               /\ last' = Response("jobs.analyzeJD", uid, "UpstreamError",
                                   job_id # NullId, FALSE)
            \/ \E spans \in AnalyzeSpans(jd_text) :
                 /\ last' = Reply("jobs.analyzeJD", uid, "ok", [spans |-> spans])
                 /\ jobs' = {IF r \in AnalyzeTargets(uid, job_id)
                              THEN JobsUpdateRow(r, [jd_raw |-> jd_text,
                                                     jd_spans_json |-> spans])
                              ELSE r : r \in jobs}
    /\ UNCHANGED <<users, actions, issued, now, resume_master, resume_variant, cover_letters, outreach_contacts, pc, hist>>

\* jdText || job?.jd_raw || "": the first of the two texts that is not empty
AnalyzeText(jdText, job) ==
    IF jdText # << >> THEN jdText
    ELSE IF job.jd_raw # NullText /\ job.jd_raw # << >> THEN job.jd_raw
    ELSE << >>

\* JobDetailPage's Analyze JD button, on the page of a job that was loaded:
\* analyzeMutation.mutate(jdText || job?.jd_raw || "") with the page's job id
ClickAnalyze(uid, id, jdText) ==
    /\ JobById(uid, id) # {}
    /\ AnalyzeJD(uid, AnalyzeText(jdText, CHOOSE j \in JobById(uid, id) : TRUE), id)

-----------------------------------------------------------------------------
(* TABLE resume_master and resumeApi.uploadMaster / resumeApi.getMaster *)

UploadResumeRequestSchemaMutant(req) == Len(req.latex) >= 0

\* UploadResumeRequestSchema: latex is z.string().min(1)
UploadResumeRequestSchema(req) == Len(req.latex) >= 1

\* The derivation of ParsedResume from the LaTeX source: a function of the
\* text alone.  A text is a sequence of items; "s" stands for an entry of the
\* technical-skills section, "c" for an entry of the coursework section.
ParseResume(latex) ==
    [technicalSkills |->
        [i \in 1..Len(SelectSeq(latex, LAMBDA ch : ch = "s")) |->
            [name |-> "s", source |-> "static", locked |-> FALSE]],
     relevantCoursework |->
        [i \in 1..Len(SelectSeq(latex, LAMBDA ch : ch = "c")) |-> [name |-> "c"]]]

PolicyResumeMasterMutant(uid, row) == TRUE

\* POLICY "Users can manage own resume_master" ... USING (auth.uid() = user_id)
PolicyResumeMaster(uid, row) == uid = row.user_id

ResumeMasterUniqueMutant(rows) == TRUE

\* UNIQUE(user_id)
ResumeMasterUnique(rows) ==
    \A r1 \in rows, r2 \in rows : r1.id # r2.id => r1.user_id # r2.user_id

\* uuid_generate_v4(): an id no row of the table holds
FreshId(rows) == CHOOSE n \in 1..(Cardinality(rows) + 1) : \A r \in rows : r.id # n

\* the rows of resume_master a statement run for uid can see
MasterOf(uid) == {r \in resume_master : PolicyResumeMaster(uid, r)}

\* POST /api/resume/master, first statement: validate, then look the
\* caller's row up
UploadMasterBegin(c, uid, latex) ==
    /\ pc[c] = Idle
    /\ IF UploadResumeRequestSchema([latex |-> latex])
       THEN /\ pc' = [pc EXCEPT ![c] =
                        [op |-> "upload", user |-> uid, latex |-> latex,
                         seen |-> IF MasterOf(uid) = {} THEN NullId
                                  ELSE (CHOOSE r \in MasterOf(uid) : TRUE).id]]
            /\ last' = last
       ELSE /\ pc' = pc
            /\ last' = Response("resume.uploadMaster", uid, "ValidationError", FALSE, FALSE)
    /\ UNCHANGED <<users, actions, issued, now, tables, hist>>

\* the counts the upload derives and reports
Derived(latex) ==
    [latex |-> latex,
     nSkills |-> Len(ParseResume(latex).technicalSkills),
     nCoursework |-> Len(ParseResume(latex).relevantCoursework)]

\* POST /api/resume/master, second statement: INSERT when no row was seen,
\* UPDATE of the row seen otherwise; one statement writes both columns
UploadMasterWrite(c) ==
    LET h == pc[c]
        row == [id |-> FreshId(resume_master), user_id |-> h.user,
                latex_blob |-> h.latex, parsed_json |-> ParseResume(h.latex)]
    IN
    /\ h.op = "upload"
    /\ pc' = [pc EXCEPT ![c] = Idle]
    /\ IF h.seen = NullId
       THEN IF /\ ResumeMasterUnique(resume_master \cup {row})
               /\ PolicyResumeMaster(h.user, row) /\ UsersFk(h.user)
            THEN /\ resume_master' = resume_master \cup {row}
                 /\ hist' = [hist EXCEPT ![h.user] = Derived(h.latex)]
                 /\ last' = Response("resume.uploadMaster", h.user, "ok", FALSE, FALSE)
            ELSE /\ UNCHANGED <<resume_master, hist>>
                 /\ last' = Response("resume.uploadMaster", h.user, "ConflictError", FALSE, FALSE)
       ELSE /\ resume_master' =
                 {IF r.id = h.seen /\ PolicyResumeMaster(h.user, r)
                  THEN [r EXCEPT !.latex_blob = h.latex,
                                 !.parsed_json = ParseResume(h.latex)]
                  ELSE r : r \in resume_master}
            /\ hist' = [hist EXCEPT ![h.user] = Derived(h.latex)]
            /\ last' = Response("resume.uploadMaster", h.user, "ok", TRUE, FALSE)
    /\ UNCHANGED <<users, actions, issued, now, jobs, resume_variant, cover_letters, outreach_contacts>>

\* GET /api/resume/master: { id, latex, parsed } of the caller's row
GetMasterResult(uid) ==
    IF MasterOf(uid) = {} THEN NullJson
    ELSE LET r == CHOOSE r \in MasterOf(uid) : TRUE IN
         [id |-> r.id, latex |-> r.latex_blob, parsed |-> r.parsed_json]

GetMaster(uid) ==
    /\ last' = Reply("resume.getMaster", uid,
                      IF GetMasterResult(uid) = NullJson THEN "NotFoundError" ELSE "ok",
                      GetMasterResult(uid))
    /\ UNCHANGED <<users, actions, issued, now, tables, pc, hist>>

SkillsCountMutant(master) ==
    IF master = NullJson THEN 0 ELSE Len(master.parsed.relevantCoursework)

\* ResumePage: master.parsed?.technicalSkills?.length || 0
SkillsCount(master) ==
    IF master = NullJson THEN 0 ELSE Len(master.parsed.technicalSkills)

\* ResumePage: master.parsed?.relevantCoursework?.length || 0
CourseworkCount(master) ==
    IF master = NullJson THEN 0 ELSE Len(master.parsed.relevantCoursework)

-----------------------------------------------------------------------------
(* TABLE resume_variant and resumeApi.updateVariant / resumeApi.getVariant *)

SkillSourceSchema == {"requirement", "responsibility", "nice_to_have", "static"}

\* SkillSchema: name, source of the closed set, locked a boolean
SkillSchema(s) == s.source \in SkillSourceSchema /\ s.locked \in BOOLEAN

\* UpdateResumeVariantRequestSchema: job_id, skills, coursework
UpdateResumeVariantRequestSchema(req) ==
    \A i \in 1..Len(req.skills) : SkillSchema(req.skills[i])

\* POLICY "Users can manage own resume_variant" ... USING (auth.uid() = user_id)
PolicyResumeVariant(uid, row) == uid = row.user_id

ResumeVariantUniqueMutant(rows) == TRUE

\* UNIQUE(user_id, job_id)
ResumeVariantUnique(rows) ==
    \A r1 \in rows, r2 \in rows :
        r1.id # r2.id => <<r1.user_id, r1.job_id>> # <<r2.user_id, r2.job_id>>

\* job_id UUID ... REFERENCES jobs(id): checked against the whole table
JobsFk(job_id) == \E j \in jobs : j.id = job_id

VariantOf(uid, job_id) ==
    {v \in resume_variant : PolicyResumeVariant(uid, v) /\ v.job_id = job_id}

\* POST /api/resume/variant, first statements: validate, resolve the job,
\* look the variant of (caller, job) up
UpdateVariantBegin(c, uid, job_id, skills, coursework) ==
    /\ pc[c] = Idle
    /\ IF ~UpdateResumeVariantRequestSchema([skills |-> skills, coursework |-> coursework])
       THEN /\ pc' = pc
            /\ last' = Response("resume.updateVariant", uid, "ValidationError", FALSE, FALSE)
       ELSE IF JobById(uid, job_id) = {}
       THEN /\ pc' = pc
            /\ last' = Response("resume.updateVariant", uid, "NotFoundError", FALSE, FALSE)
       ELSE \/ /\ pc' = pc            \* the compilation collaborator failed
               /\ last' = Response("resume.updateVariant", uid, "UpstreamError", TRUE, FALSE)
            \/ /\ pc' = [pc EXCEPT ![c] =
                        [op |-> "variant", user |-> uid, job_id |-> job_id,
                         skills |-> skills, coursework |-> coursework,
                         seen |-> IF VariantOf(uid, job_id) = {} THEN NullId
                                  ELSE (CHOOSE v \in VariantOf(uid, job_id) : TRUE).id]]
               /\ last' = last
    /\ UNCHANGED <<users, actions, issued, now, tables, hist>>

\* the request's lists and every locked skill of the row's that they lack
ReplaceListsMutant(v, skills, coursework) ==
    [v EXCEPT !.skills = skills \o SelectSeq(v.skills, LAMBDA x :
                              x.locked /\ \A i \in 1..Len(skills) : skills[i] # x),
              !.coursework = coursework]

\* the UPDATE of a variant's lists: the request's lists take the place of
\* the row's
ReplaceLists(v, skills, coursework) ==
    [v EXCEPT !.skills = skills, !.coursework = coursework]

\* POST /api/resume/variant, last statement: INSERT when no row was seen,
\* UPDATE of the row seen otherwise.  The skill and coursework lists are kept
\* in the row's JSON sidecar.
UpdateVariantWrite(c) ==
    LET h == pc[c]
        row == [id |-> FreshId(resume_variant), user_id |-> h.user, job_id |-> h.job_id,
                skills |-> h.skills, coursework |-> h.coursework]
    IN
    /\ h.op = "variant"
    /\ pc' = [pc EXCEPT ![c] = Idle]
    /\ IF h.seen = NullId
       THEN IF ~JobsFk(row.job_id) \/ ~UsersFk(row.user_id)
            THEN /\ resume_variant' = resume_variant
                 /\ last' = Response("resume.updateVariant", h.user, "NotFoundError", FALSE, FALSE)
            ELSE IF ResumeVariantUnique(resume_variant \cup {row})
                    /\ PolicyResumeVariant(h.user, row)
            THEN /\ resume_variant' = resume_variant \cup {row}
                 /\ last' = Response("resume.updateVariant", h.user, "ok", FALSE, FALSE)
            ELSE /\ resume_variant' = resume_variant
                 /\ last' = Response("resume.updateVariant", h.user, "ConflictError", FALSE, FALSE)
       ELSE IF \E v \in resume_variant : v.id = h.seen /\ PolicyResumeVariant(h.user, v)
            THEN /\ resume_variant' =
                      {IF v.id = h.seen /\ PolicyResumeVariant(h.user, v)
                       THEN ReplaceLists(v, h.skills, h.coursework)
                       ELSE v : v \in resume_variant}
                 /\ last' = Response("resume.updateVariant", h.user, "ok", TRUE, FALSE)
            ELSE /\ resume_variant' = resume_variant
                 /\ last' = Response("resume.updateVariant", h.user, "NotFoundError", FALSE, FALSE)
    /\ UNCHANGED <<users, actions, issued, now, jobs, resume_master, cover_letters, outreach_contacts, hist>>

\* GET /api/resume/variant/{jobId}
GetVariant(uid, job_id) ==
    /\ last' = IF VariantOf(uid, job_id) = {}
               THEN Response("resume.getVariant", uid, "NotFoundError", FALSE, FALSE)
               ELSE LET v == CHOOSE v \in VariantOf(uid, job_id) : TRUE IN
                    Reply("resume.getVariant", uid, "ok",
                          [job_id |-> v.job_id, skills |-> v.skills, coursework |-> v.coursework])
    /\ UNCHANGED <<users, actions, issued, now, tables, pc, hist>>

RewritableMutant(s) == TRUE

\* a locked skill is excluded from tailoring rewrites
Rewritable(s) == ~s.locked

\* the lists a tailoring pass can turn a skill list into: each rewritable
\* entry is kept, dropped or replaced by a candidate, the others stay
RECURSIVE TailorRewrites(_, _)
TailorRewrites(skills, candidates) ==
    IF skills = << >> THEN {<< >>}
    ELSE LET s == Head(skills)
             rest == TailorRewrites(Tail(skills), candidates)
         IN IF Rewritable(s)
            THEN rest \cup {<<x>> \o r : x \in {s} \cup candidates, r \in rest}
            ELSE {<<s>> \o r : r \in rest}

\* a tailoring pass on the variant of (caller, job): one UPDATE of its skills
TailoringPass(uid, job_id, candidates) ==
    /\ IF VariantOf(uid, job_id) = {}
       THEN /\ resume_variant' = resume_variant
            /\ last' = Response("resume.tailor", uid, "NotFoundError", FALSE, FALSE)
       ELSE LET v == CHOOSE v \in VariantOf(uid, job_id) : TRUE IN
            /\ \E skills \in TailorRewrites(v.skills, candidates) :
                  resume_variant' = (resume_variant \ {v}) \cup {[v EXCEPT !.skills = skills]}
            /\ last' = Response("resume.tailor", uid, "ok", TRUE, FALSE)
    /\ UNCHANGED <<users, actions, issued, now, jobs, resume_master, cover_letters, outreach_contacts, pc, hist>>

-----------------------------------------------------------------------------
(* TABLE cover_letters and coverLetterApi *)

\* POLICY "Users can manage own cover_letters" ... USING (EXISTS (SELECT 1
\* FROM jobs WHERE jobs.id = cover_letters.job_id AND jobs.user_id = auth.uid()))
PolicyCoverLetters(uid, row) ==
    \E j \in jobs : j.id = row.job_id /\ j.user_id = uid

CoverLettersUniqueMutant(rows) == TRUE

\* UNIQUE(job_id)
CoverLettersUnique(rows) ==
    \A r1 \in rows, r2 \in rows : r1.id # r2.id => r1.job_id # r2.job_id

LetterOf(uid, job_id) ==
    {l \in cover_letters : PolicyCoverLetters(uid, l) /\ l.job_id = job_id}

\* POST /api/cover-letter/generate, first statements: resolve the job, look
\* its letter up, ask the collaborator for the text
GenerateCoverLetterBegin(c, uid, job_id, text) ==
    /\ pc[c] = Idle
    /\ IF JobById(uid, job_id) = {}
       THEN /\ pc' = pc
            /\ last' = Response("coverLetter.generate", uid, "NotFoundError", FALSE, FALSE)
       ELSE \/ /\ pc' = pc            \* the collaborator failed
               /\ last' = Response("coverLetter.generate", uid, "UpstreamError", TRUE, FALSE)
            \/ /\ pc' = [pc EXCEPT ![c] =
                        [op |-> "letter", user |-> uid, job_id |-> job_id, text |-> text,
                         seen |-> IF LetterOf(uid, job_id) = {} THEN NullId
                                  ELSE (CHOOSE l \in LetterOf(uid, job_id) : TRUE).id]]
               /\ last' = last
    /\ UNCHANGED <<users, actions, issued, now, tables, hist>>

\* POST /api/cover-letter/generate, last statement: INSERT when no letter
\* was seen, UPDATE of the letter seen otherwise
GenerateCoverLetterWrite(c) ==
    LET h == pc[c]
        row == [id |-> FreshId(cover_letters), job_id |-> h.job_id, text |-> h.text]
    IN
    /\ h.op = "letter"
    /\ pc' = [pc EXCEPT ![c] = Idle]
    /\ IF h.seen = NullId
       THEN IF ~JobsFk(row.job_id)
            THEN /\ cover_letters' = cover_letters
                 /\ last' = Response("coverLetter.generate", h.user, "NotFoundError", FALSE, FALSE)
            ELSE IF CoverLettersUnique(cover_letters \cup {row})
                    /\ PolicyCoverLetters(h.user, row)
            THEN /\ cover_letters' = cover_letters \cup {row}
                 /\ last' = Reply("coverLetter.generate", h.user, "ok", [text |-> h.text])
            ELSE /\ cover_letters' = cover_letters
                 /\ last' = Response("coverLetter.generate", h.user, "ConflictError", TRUE, FALSE)
       ELSE IF \E l \in cover_letters : l.id = h.seen /\ PolicyCoverLetters(h.user, l)
            THEN /\ cover_letters' =
                      {IF l.id = h.seen THEN [l EXCEPT !.text = h.text] ELSE l :
                           l \in cover_letters}
                 /\ last' = Reply("coverLetter.generate", h.user, "ok", [text |-> h.text])
            ELSE /\ cover_letters' = cover_letters
                 /\ last' = Response("coverLetter.generate", h.user, "NotFoundError", FALSE, FALSE)
    /\ UNCHANGED <<users, actions, issued, now, jobs, resume_master, resume_variant, outreach_contacts, hist>>

\* POST /api/cover-letter/generate run with no other request between its
\* statements: the text comes from the collaborator
GenerateCoverLetter(uid, job_id, text) ==
    LET row == [id |-> FreshId(cover_letters), job_id |-> job_id, text |-> text]
    IN
    /\ IF JobById(uid, job_id) = {}
       THEN /\ cover_letters' = cover_letters
            /\ last' = Response("coverLetter.generate", uid, "NotFoundError", FALSE, FALSE)
       ELSE \/ /\ cover_letters' = cover_letters      \* the collaborator failed
               /\ last' = Response("coverLetter.generate", uid, "UpstreamError", TRUE, FALSE)
            \/ IF LetterOf(uid, job_id) # {}
               THEN /\ cover_letters' =
                         {IF l \in LetterOf(uid, job_id)
                          THEN [l EXCEPT !.text = text]
                          ELSE l : l \in cover_letters}
                    /\ last' = Reply("coverLetter.generate", uid, "ok", [text |-> text])
               ELSE IF CoverLettersUnique(cover_letters \cup {row})
                       /\ PolicyCoverLetters(uid, row)
               THEN /\ cover_letters' = cover_letters \cup {row}
                    /\ last' = Reply("coverLetter.generate", uid, "ok", [text |-> text])
               ELSE /\ cover_letters' = cover_letters
                    /\ last' = Response("coverLetter.generate", uid, "ConflictError", TRUE, FALSE)
    /\ UNCHANGED <<users, actions, issued, now, jobs, resume_master, resume_variant, outreach_contacts, pc, hist>>

\* GET /api/cover-letter/{jobId}
GetCoverLetter(uid, job_id) ==
    /\ last' = IF LetterOf(uid, job_id) = {}
               THEN Response("coverLetter.get", uid, "NotFoundError", FALSE, FALSE)
               ELSE Reply("coverLetter.get", uid, "ok",
                          [text |-> (CHOOSE l \in LetterOf(uid, job_id) : TRUE).text])
    /\ UNCHANGED <<users, actions, issued, now, tables, pc, hist>>

\* PATCH /api/cover-letter/{jobId} with { text }
UpdateCoverLetter(uid, job_id, text) ==
    /\ IF LetterOf(uid, job_id) = {}
       THEN /\ cover_letters' = cover_letters
            /\ last' = Response("coverLetter.update", uid, "NotFoundError", FALSE, FALSE)
       ELSE /\ cover_letters' =
                 {IF l \in LetterOf(uid, job_id)
                  THEN [l EXCEPT !.text = text]
                  ELSE l : l \in cover_letters}
            /\ last' = Reply("coverLetter.update", uid, "ok", [text |-> text])
    /\ UNCHANGED <<users, actions, issued, now, jobs, resume_master, resume_variant, outreach_contacts, pc, hist>>

-----------------------------------------------------------------------------
(* TABLE outreach_contacts and outreachApi *)

\* CHECK (status IN (...)), DEFAULT 'Not Contacted'
OutreachContactsCheck(row) ==
    row.status \in {"Not Contacted", "Reached Out", "Connected", "Not Interested"}

\* POLICY "Users can manage own outreach_contacts" ... USING (auth.uid() = user_id)
PolicyOutreachContacts(uid, row) == uid = row.user_id

ContactById(uid, cid) ==
    {k \in outreach_contacts : PolicyOutreachContacts(uid, k) /\ k.id = cid}

\* the row an UPDATE of outreach_contacts builds; the BEFORE UPDATE trigger
\* update_outreach_contacts_updated_at stamps updated_at
ContactsUpdateRow(row, req) ==
    [f \in DOMAIN row |->
        IF f = "updated_at" THEN now
        ELSE IF f \in DOMAIN req THEN req[f]
        ELSE row[f]]

\* POST /api/outreach/contacts; job_id is optional
CreateContact(uid, cid, req) ==
    LET row == [id |-> cid, user_id |-> uid,
                job_id |-> IF "job_id" \in DOMAIN req THEN req.job_id ELSE NullId,
                name |-> req.name,
                status |-> IF "status" \in DOMAIN req THEN req.status ELSE "Not Contacted",
                updated_at |-> now]
    IN
    /\ \A k \in outreach_contacts : k.id # cid
    /\ IF row.job_id # NullId /\ JobById(uid, row.job_id) = {}
       THEN /\ outreach_contacts' = outreach_contacts
            /\ last' = Response("outreach.createContact", uid, "NotFoundError", FALSE, FALSE)
       ELSE IF /\ OutreachContactsCheck(row) /\ PolicyOutreachContacts(uid, row)
               /\ UsersFk(uid)
       THEN /\ outreach_contacts' = outreach_contacts \cup {row}
            /\ last' = Response("outreach.createContact", uid, "ok", TRUE, FALSE)
       ELSE /\ outreach_contacts' = outreach_contacts
            /\ last' = Response("outreach.createContact", uid, "ValidationError", TRUE, FALSE)
    /\ UNCHANGED <<users, actions, issued, now, jobs, resume_master, resume_variant, cover_letters, pc, hist>>

\* GET /api/outreach/contacts/{contactId}
GetContact(uid, cid) ==
    /\ last' = IF ContactById(uid, cid) = {}
               THEN Response("outreach.getContact", uid, "NotFoundError", FALSE, FALSE)
               ELSE Reply("outreach.getContact", uid, "ok", CHOOSE k \in ContactById(uid, cid) : TRUE)
    /\ UNCHANGED <<users, actions, issued, now, tables, pc, hist>>

\* PATCH /api/outreach/contacts/{contactId}
UpdateContact(uid, cid, req) ==
    /\ IF ContactById(uid, cid) = {}
          \/ ("job_id" \in DOMAIN req /\ req.job_id # NullId /\ JobById(uid, req.job_id) = {})
       THEN /\ outreach_contacts' = outreach_contacts
            /\ last' = Response("outreach.updateContact", uid, "NotFoundError", FALSE, FALSE)
       ELSE LET old == CHOOSE k \in ContactById(uid, cid) : TRUE
                row == ContactsUpdateRow(old, req) IN
            IF OutreachContactsCheck(row) /\ PolicyOutreachContacts(uid, row)
            THEN /\ outreach_contacts' = (outreach_contacts \ {old}) \cup {row}
                 /\ last' = Response("outreach.updateContact", uid, "ok", TRUE, FALSE)
            ELSE /\ outreach_contacts' = outreach_contacts
                 /\ last' = Response("outreach.updateContact", uid, "ValidationError", TRUE, FALSE)
    /\ UNCHANGED <<users, actions, issued, now, jobs, resume_master, resume_variant, cover_letters, pc, hist>>

-----------------------------------------------------------------------------
(* jobsApi.get and jobsApi.delete; the foreign keys that reference jobs(id) *)

\* GET /api/jobs/{id}
GetJob(uid, id) ==
    /\ last' = IF JobById(uid, id) = {}
               THEN Response("jobs.get", uid, "NotFoundError", FALSE, FALSE)
               ELSE Reply("jobs.get", uid, "ok", CHOOSE r \in JobById(uid, id) : TRUE)
    /\ UNCHANGED <<users, actions, issued, now, tables, pc, hist>>

\* resume_variant.job_id ... REFERENCES jobs(id) ON DELETE CASCADE
VariantsOnDeleteJob(rows, id) == {v \in rows : v.job_id # id}

\* cover_letters.job_id ... REFERENCES jobs(id) ON DELETE CASCADE
CoverLettersOnDeleteJob(rows, id) == {l \in rows : l.job_id # id}

ContactsOnDeleteJobMutant(rows, id) == {k \in rows : k.job_id # id}

\* outreach_contacts.job_id ... REFERENCES jobs(id) ON DELETE SET NULL: an
\* UPDATE of the referencing rows, on which the BEFORE UPDATE trigger fires
ContactsOnDeleteJob(rows, id) ==
    {IF k.job_id = id THEN ContactsUpdateRow(k, [job_id |-> NullId]) ELSE k : k \in rows}

\* actions.job_id ... REFERENCES jobs(id) ON DELETE SET NULL; the table has
\* no trigger
ActionsOnDeleteJob(rows, id) ==
    {IF a.job_id = id THEN [a EXCEPT !.job_id = NullId] ELSE a : a \in rows}

\* DELETE /api/jobs/{id}: one DELETE ... WHERE id = {id}
DeleteJob(uid, id) ==
    /\ IF JobById(uid, id) = {}
       THEN /\ UNCHANGED <<tables, actions>>
            /\ last' = Response("jobs.delete", uid, "NotFoundError", FALSE, FALSE)
       ELSE /\ jobs' = jobs \ JobById(uid, id)
            /\ resume_variant' = VariantsOnDeleteJob(resume_variant, id)
            /\ cover_letters' = CoverLettersOnDeleteJob(cover_letters, id)
            /\ outreach_contacts' = ContactsOnDeleteJob(outreach_contacts, id)
            /\ actions' = ActionsOnDeleteJob(actions, id)
            /\ resume_master' = resume_master
            /\ last' = Response("jobs.delete", uid, "ok", TRUE, FALSE)
    /\ UNCHANGED <<users, issued, now, pc, hist>>

-----------------------------------------------------------------------------
(* TABLE actions *)

ActionTypes == {"jd_processed", "resume_compiled", "cover_letter_generated",
                "job_added", "outreach_dm_generated", "resume_viewed", "applied",
                "connected", "messaged"}

\* type TEXT NOT NULL CHECK (type IN (...))
ActionsCheck(row) == row.type \in ActionTypes

\* POLICY "Users can manage own actions" ON actions FOR ALL USING (auth.uid() = user_id)
PolicyActions(uid, row) == uid = row.user_id

\* the API records an event of the caller, about one of the caller's jobs or
\* about none: one INSERT, created_at DEFAULT NOW()
InsertAction(uid, aid, job_id, type, meta) ==
    LET row == [id |-> aid, user_id |-> uid, job_id |-> job_id, type |-> type,
                meta |-> meta, created_at |-> now]
    IN
    /\ \A a \in actions : a.id # aid
    /\ IF job_id # NullId /\ JobById(uid, job_id) = {}
       THEN /\ actions' = actions
            /\ last' = Response("actions.insert", uid, "NotFoundError", FALSE, FALSE)
       ELSE IF ActionsCheck(row) /\ PolicyActions(uid, row) /\ UsersFk(uid)
       THEN /\ actions' = actions \cup {row}
            /\ last' = Response("actions.insert", uid, "ok", TRUE, FALSE)
       ELSE /\ actions' = actions
            /\ last' = Response("actions.insert", uid, "ValidationError", TRUE, FALSE)
    /\ UNCHANGED <<users, issued, now, tables, pc, hist>>

-----------------------------------------------------------------------------
(* TABLE users: the foreign keys on it *)

UserCascadeMutant(rows, uid) == rows

\* user_id UUID NOT NULL REFERENCES users(id) ON DELETE CASCADE
UserCascade(rows, uid) == {r \in rows : r.user_id # uid}

\* The users row of uid is deleted (auth.users ... ON DELETE CASCADE).  The
\* rows with that user_id go, the user's jobs among them, and the foreign
\* keys on jobs act for each job that goes.
DeleteUser(uid) ==
    LET ids == {j.id : j \in jobs \ UserCascade(jobs, uid)} IN
    /\ uid \in users
    /\ users' = users \ {uid}
    /\ resume_master' = UserCascade(resume_master, uid)
    /\ jobs' = UserCascade(jobs, uid)
    /\ resume_variant' = {v \in UserCascade(resume_variant, uid) : v.job_id \notin ids}
    /\ cover_letters' = {l \in cover_letters : l.job_id \notin ids}
    /\ outreach_contacts' =
          {IF k.job_id \in ids THEN ContactsUpdateRow(k, [job_id |-> NullId]) ELSE k :
               k \in UserCascade(outreach_contacts, uid)}
    /\ actions' =
          {IF a.job_id \in ids THEN [a EXCEPT !.job_id = NullId] ELSE a :
               a \in UserCascade(actions, uid)}
    /\ UNCHANGED <<issued, now, pc, last, hist>>

\* time passes
Tick(limit) ==
    /\ now < limit
    /\ now' = now + 1
    /\ UNCHANGED <<users, actions, issued, tables, pc, last, hist>>

-----------------------------------------------------------------------------
(* Initial state: an empty store, no request in flight *)

MaxConns == 2
Conns == 1..MaxConns

Init ==
    /\ users = Users
    /\ actions = {}
    /\ issued = {}
    /\ now = 0
    /\ jobs = {}
    /\ resume_master = {}
    /\ resume_variant = {}
    /\ cover_letters = {}
    /\ outreach_contacts = {}
    /\ pc = [c \in Conns |-> Idle]
    /\ last = NoResponse
    /\ hist = [u \in Users |-> NullJson]

-----------------------------------------------------------------------------
(* Specification SpecEnum: job create and update over every value of the   *)
(* three vocabularies and values outside them                              *)

EnumMaxJobs == 1

\* every value of a vocabulary, one of another vocabulary and one of none
StatusInputs == JobStatusSchema \cup {"Sent"}
ApplicationStatusInputs == ApplicationStatusSchema \cup {"Ghosted"}
ConnectionStatusInputs == ConnectionStatusSchema \cup {"Not Contacted"}

EnumFields == {"status", "application_status", "connection_status"}

\* the body JSON.stringify sends: a field that is undefined is not sent
Body(r) == [f \in {g \in DOMAIN r : r[g] # Absent} |-> r[f]]

EnumRequests ==
    {Body([status |-> s, application_status |-> a, connection_status |-> c]) :
        s \in StatusInputs \cup {Absent},
        a \in ApplicationStatusInputs \cup {Absent},
        c \in ConnectionStatusInputs \cup {Absent}}

EnumCreateRequests ==
    {[f \in DOMAIN q \cup {"jd_raw"} |-> IF f = "jd_raw" THEN <<"a">> ELSE q[f]] :
        q \in EnumRequests}

NextEnum ==
    \/ \E id \in 1..EnumMaxJobs, req \in EnumCreateRequests : CreateJob("A", id, req)
    \/ \E id \in 1..EnumMaxJobs, req \in EnumRequests : UpdateJob("A", id, req)

SpecEnum == Init /\ [][NextEnum]_vars

\* C1: after any sequence of job create and update operations every stored
\* job holds a status, application_status and connection_status of its closed
\* vocabulary, and a create or update that carries a value outside a
\* vocabulary is refused (a validation error when it addresses a job) and
\* leaves the jobs table as it was.
C1_EnumsClosed ==
    /\ [](\A r \in jobs : /\ r.status \in JobStatusSchema
                          /\ r.application_status \in ApplicationStatusSchema
                          /\ r.connection_status \in ConnectionStatusSchema)
    /\ [][(last'.op \in {"jobs.create", "jobs.update"} /\ last'.outside)
            => /\ jobs' = jobs
               /\ last'.outcome # "ok"
               /\ last'.hit => last'.outcome = "ValidationError"]_vars

C1_Witness ==
    /\ jobs # {}
    /\ last.op = "jobs.update" /\ last.outside /\ last.hit
    /\ last.outcome = "ValidationError"


-----------------------------------------------------------------------------
(* Specification SpecResume: uploads of the master resume by two users     *)
(* over concurrent connections, and fetches                                *)

LatexInputs == {<< >>, <<"s">>, <<"c", "s", "s">>}

NextResume ==
    \/ \E c \in Conns, u \in Users, latex \in LatexInputs : UploadMasterBegin(c, u, latex)
    \/ \E c \in Conns : UploadMasterWrite(c)
    \/ \E u \in Users : GetMaster(u)

SpecResume == Init /\ [][NextResume]_vars

\* C2: the store never holds two resume_master rows of one user, and an
\* upload that found the user's row replaces that row's latex_blob and parsed
\* derivation without adding a row.
C2_OneMasterPerUser ==
    /\ [](\A u \in Users : Cardinality({r \in resume_master : r.user_id = u}) <= 1)
    /\ [][\A c \in Conns :
            (pc[c].op = "upload" /\ pc'[c] = Idle /\ pc[c].seen # NullId)
            => /\ Cardinality(resume_master') = Cardinality(resume_master)
               /\ \E r \in resume_master' :
                     /\ r.user_id = pc[c].user
                     /\ r.id = pc[c].seen
                     /\ r.latex_blob = pc[c].latex
                     /\ r.parsed_json = ParseResume(pc[c].latex)]_vars

C2_Witness ==
    /\ last.op = "resume.uploadMaster" /\ last.outcome = "ok" /\ last.hit
    /\ \E r \in resume_master : r.user_id = last.user /\ r.latex_blob = <<"c", "s", "s">>
    /\ \E r \in resume_master : r.user_id # last.user

\* C3: once an upload of a user has been accepted, also when a concurrent
\* upload of the same user lost the race with a conflict, the store holds
\* exactly one row of that user, and its latex_blob and parsed_json are those
\* of one and the same upload, the last one accepted.
C3_RaceLeavesOneRow ==
    \A u \in Users :
        (\/ hist[u] # NullJson
         \/ (last.op = "resume.uploadMaster" /\ last.user = u /\ last.outcome = "ConflictError"))
        => /\ hist[u] # NullJson
           /\ Cardinality({r \in resume_master : r.user_id = u}) = 1
           /\ \A r \in resume_master :
                 r.user_id = u => /\ r.latex_blob = hist[u].latex
                                  /\ r.parsed_json = ParseResume(hist[u].latex)

C3_Witness ==
    /\ \A c \in Conns : pc[c] = Idle
    /\ last.op = "resume.uploadMaster" /\ last.outcome = "ConflictError"
    /\ Cardinality({r \in resume_master : r.user_id = last.user}) = 1

C12_EmptyUploadRejected ==
    /\ [][\A c \in Conns, u \in Users :
            UploadMasterBegin(c, u, << >>) =>
                /\ last'.op = "resume.uploadMaster" /\ last'.user = u
                /\ last'.outcome = "ValidationError"
                /\ UNCHANGED <<tables, pc, hist>>]_vars
    /\ [](/\ \A r \in resume_master : r.latex_blob # << >>
          /\ \A c \in Conns : pc[c] # Idle => pc[c].latex # << >>)

\* an empty upload was refused while the caller's row was in the store
C12_Witness ==
    /\ last.op = "resume.uploadMaster" /\ last.outcome = "ValidationError"
    /\ \E r \in resume_master : r.user_id = last.user
    /\ \E u \in Users : u # last.user /\ MasterOf(u) = {}


-----------------------------------------------------------------------------
(* Specification SpecSpans: one user's jobs, their raw text and their spans *)

SpansMaxJobs == 1

JdTexts == {<< >>, <<"a">>, <<"a", "b", "c">>}

NoSpans == [requirements |-> << >>, responsibilities |-> << >>, nice_to_haves |-> << >>]

\* span values a client may put in a PATCH body
SpanInputs ==
    {NullJson, NoSpans,
     [NoSpans EXCEPT !.requirements = <<<<0, 1>>>>],
     [NoSpans EXCEPT !.nice_to_haves = <<<<2, 1>>>>],
     [requirements |-> << >>, responsibilities |-> << >>]}

SpanUpdateRequests ==
    {[jd_raw |-> t] : t \in JdTexts \ {<< >>}} \cup {[jd_spans_json |-> v] : v \in SpanInputs}

NextSpans ==
    \/ \E id \in 1..SpansMaxJobs, t \in JdTexts : CreateJob("A", id, [jd_raw |-> t])
    \/ \E id \in 1..SpansMaxJobs, req \in SpanUpdateRequests : UpdateJob("A", id, req)
    \/ \E id \in 0..SpansMaxJobs, t \in JdTexts : AnalyzeJD("A", t, id)

SpecSpans == Init /\ [][NextSpans]_vars

-----------------------------------------------------------------------------
(* Specification SpecDelete: one user's jobs with their variants, cover    *)
(* letters and contacts, deleted while time passes                         *)

DeleteJobIds == {1, 2}
DeleteMaxContacts == 1
DeleteMaxClock == 1

ContactRequests(ids) ==
    {[name |-> "n"]} \cup {[name |-> "n", job_id |-> j] : j \in ids}

NextDelete ==
    \/ \E id \in DeleteJobIds : CreateJob("A", id, [jd_raw |-> <<"a">>])
    \/ \E id \in DeleteJobIds : UpdateVariantBegin(1, "A", id, << >>, << >>)
    \/ UpdateVariantWrite(1)
    \/ \E id \in DeleteJobIds : GenerateCoverLetter("A", id, "t")
    \/ \E cid \in 1..DeleteMaxContacts, req \in ContactRequests(DeleteJobIds) :
          CreateContact("A", cid, req)
    \/ \E id \in DeleteJobIds : DeleteJob("A", id)
    \/ Tick(DeleteMaxClock)

SpecDelete == Init /\ [][NextDelete]_vars

\* the step is an accepted DELETE of job d
DeletesJob(d) ==
    /\ last'.op = "jobs.delete" /\ last'.outcome = "ok"
    /\ d \in jobs /\ d \notin jobs'

\* C7 as claimed: deleting a job removes its variants and cover letter and
\* leaves each contact that referenced it in the store with job_id NULL and
\* every other field as it was; rows of other jobs are untouched.
C7_DeleteCascade_Claimed ==
    [][\A d \in jobs : DeletesJob(d) =>
          /\ jobs' = jobs \ {d}
          /\ resume_variant' = {v \in resume_variant : v.job_id # d.id}
          /\ cover_letters' = {l \in cover_letters : l.job_id # d.id}
          /\ outreach_contacts' =
                {IF k.job_id = d.id THEN [k EXCEPT !.job_id = NullId] ELSE k :
                    k \in outreach_contacts}]_vars

\* C7 as amended: ... with job_id NULL and every other field except
\* updated_at as it was (the BEFORE UPDATE trigger stamps updated_at with the
\* time of the deletion); rows of other jobs are untouched.
C7_DeleteCascade ==
    [][\A d \in jobs : DeletesJob(d) =>
          /\ jobs' = jobs \ {d}
          /\ resume_variant' = {v \in resume_variant : v.job_id # d.id}
          /\ cover_letters' = {l \in cover_letters : l.job_id # d.id}
          /\ outreach_contacts' =
                {IF k.job_id = d.id
                 THEN [k EXCEPT !.job_id = NullId, !.updated_at = now]
                 ELSE k : k \in outreach_contacts}]_vars

\* a job with a variant, a cover letter and a contact has been deleted, the
\* contact is still there, and the other job keeps its cover letter
C7_Witness ==
    /\ last.op = "jobs.delete" /\ last.outcome = "ok"
    /\ resume_variant = {}
    /\ \E k \in outreach_contacts : k.job_id = NullId /\ k.updated_at = 1
    /\ \E j \in jobs : \E l \in cover_letters : l.job_id = j.id


-----------------------------------------------------------------------------
(* Specification SpecIsolation: two users, each working on rows by id,     *)
(* their own and the other's                                               *)

IsoJobIds == {1}
IsoContactIds == {1}

Python == [name |-> "Python", source |-> "requirement", locked |-> FALSE]

IsoContactUpdates == {[status |-> "Connected"]} \cup {[job_id |-> j] : j \in IsoJobIds}

NextIsolation ==
    \/ \E u \in Users, id \in IsoJobIds : CreateJob(u, id, [jd_raw |-> <<"a">>])
    \/ \E u \in Users, id \in IsoJobIds : GetJob(u, id)
    \/ \E u \in Users, id \in IsoJobIds : UpdateJob(u, id, [status |-> "Applied"])
    \/ \E u \in Users, id \in IsoJobIds : DeleteJob(u, id)
    \/ \E u \in Users : UploadMasterBegin(1, u, <<"s">>)
    \/ UploadMasterWrite(1)
    \/ \E u \in Users : GetMaster(u)
    \/ \E u \in Users, id \in IsoJobIds : UpdateVariantBegin(1, u, id, <<Python>>, << >>)
    \/ UpdateVariantWrite(1)
    \/ \E u \in Users, id \in IsoJobIds : GetVariant(u, id)
    \/ \E u \in Users, id \in IsoJobIds : GenerateCoverLetter(u, id, "g")
    \/ \E u \in Users, id \in IsoJobIds : GetCoverLetter(u, id)
    \/ \E u \in Users, id \in IsoJobIds : UpdateCoverLetter(u, id, "u")
    \/ \E u \in Users, cid \in IsoContactIds, req \in ContactRequests(IsoJobIds) :
          CreateContact(u, cid, req)
    \/ \E u \in Users, cid \in IsoContactIds : GetContact(u, cid)
    \/ \E u \in Users, cid \in IsoContactIds, req \in IsoContactUpdates :
          UpdateContact(u, cid, req)

SpecIsolation == Init /\ [][NextIsolation]_vars

OwnsJob(J, uid, id) == \E j \in J : j.id = id /\ j.user_id = uid

OwnsContact(K, uid, cid) == \E k \in K : k.id = cid /\ k.user_id = uid

\* the rows user b owns, directly or through a job
OwnRows(J, M, V, L, K, b) ==
    <<{j \in J : j.user_id = b},
      {m \in M : m.user_id = b},
      {v \in V : v.user_id = b},
      {l \in L : OwnsJob(J, b, l.job_id)},
      {k \in K : k.user_id = b}>>

\* the request is answered as a request for an id that does not exist is
NotFoundStep ==
    /\ last'.outcome = "NotFoundError" /\ last'.body = NullJson /\ ~last'.hit
    /\ UNCHANGED <<tables, pc>>

-----------------------------------------------------------------------------
(* Specification SpecVariant: two connections save the variant of a job    *)
(* while tailoring passes run on it                                        *)

VariantJobIds == {1, 2}

SkillOf(name, locked) == [name |-> name, source |-> "requirement", locked |-> locked]

VariantSkillInputs ==
    {<< >>,
     <<SkillOf("Go", FALSE), SkillOf("SQL", TRUE)>>,
     <<SkillOf("SQL", TRUE), SkillOf("Go", FALSE), SkillOf("Java", TRUE)>>}

TailorCandidates == {SkillOf("Rust", FALSE)}

NextVariant ==
    \/ \E id \in VariantJobIds : CreateJob("A", id, [jd_raw |-> <<"a">>])
    \/ \E c \in Conns, id \in VariantJobIds, S \in VariantSkillInputs :
          UpdateVariantBegin(c, "A", id, S, << >>)
    \/ \E c \in Conns : UpdateVariantWrite(c)
    \/ \E id \in VariantJobIds : TailoringPass("A", id, TailorCandidates)

SpecVariant == Init /\ [][NextVariant]_vars

LockedSkills(skills) == SelectSeq(skills, LAMBDA s : s.locked)

C10_OneVariantPerJob ==
    /\ [](\A v1 \in resume_variant, v2 \in resume_variant :
             v1.user_id = v2.user_id /\ v1.job_id = v2.job_id => v1 = v2)
    /\ [][\A c \in Conns :
            /\ UpdateVariantWrite(c)
            /\ \E v \in resume_variant :
                  v.user_id = pc[c].user /\ v.job_id = pc[c].job_id
            => \/ last'.outcome = "ConflictError" /\ resume_variant' = resume_variant
               \/ /\ last'.outcome = "ok"
                  /\ Cardinality(resume_variant') = Cardinality(resume_variant)
                  /\ \E w \in resume_variant' :
                        /\ w.user_id = pc[c].user /\ w.job_id = pc[c].job_id
                        /\ w.skills = pc[c].skills]_vars

\* the second of two racing first saves was refused and the first one's
\* row is the only one
C10_Witness ==
    /\ last.op = "resume.updateVariant" /\ last.outcome = "ConflictError"
    /\ Cardinality(resume_variant) = 1
    /\ \A c \in Conns : pc[c] = Idle

-----------------------------------------------------------------------------
(* apiRequest's error path and JobDetailPage.  Texts are sequences of       *)
(* one-character strings, so that includes() and the template literal are  *)
(* computed.                                                               *)

\* Number to decimal text, as a template literal prints it
RECURSIVE DecimalText(_)
DecimalText(n) ==
    LET digit == <<"0", "1", "2", "3", "4", "5", "6", "7", "8", "9">>[(n % 10) + 1] IN
    IF n < 10 THEN <<digit>> ELSE DecimalText(n \div 10) \o <<digit>>

\* String.prototype.includes
Includes(text, part) ==
    \E i \in 0..(Len(text) - Len(part)) : SubSeq(text, i + 1, i + Len(part)) = part

UnknownError == <<"U", "n", "k", "n", "o", "w", "n", " ", "e", "r", "r", "o", "r">>

\* response.json().catch(() => ({ detail: "Unknown error" })): the body when
\* it is JSON, the stand-in object when it is not
ErrorJson(response) ==
    IF response.json THEN response.body ELSE [detail |-> UnknownError]

\* new Error(error.detail || `HTTP ${response.status}`): a missing or empty
\* detail gives the status text
ErrorMessage(response) ==
    LET error == ErrorJson(response) IN
    IF "detail" \in DOMAIN error /\ error.detail # << >>
    THEN error.detail
    ELSE <<"H", "T", "T", "P", " ">> \o DecimalText(response.status)

GenericNotFound == "This job doesn't exist or you don't have access to it."

\* JobDetailPage's error branch: the generic box when the message includes
\* "404", the message itself otherwise
ErrorView(message) ==
    IF Includes(message, <<"4", "0", "4">>)
    THEN [view |-> "not-found", text |-> GenericNotFound, message |-> message]
    ELSE [view |-> "error", text |-> "Error loading job:", message |-> message]

\* GET /api/jobs/{id} as the page sees it: the job's row, or status 404 with
\* the body the server chose
JobResponse(uid, id, body) ==
    IF JobById(uid, id) = {}
    THEN [status |-> 404, ok |-> FALSE, json |-> body.json, body |-> body.body]
    ELSE [status |-> 200, ok |-> TRUE, json |-> TRUE,
          body |-> CHOOSE j \in JobById(uid, id) : TRUE]

\* JobDetailPage: useQuery(jobsApi.get(jobId)), then one render
ViewJob(uid, id, body) ==
    LET response == JobResponse(uid, id, body) IN
    /\ last' = IF response.ok
               THEN Reply("page.jobDetail", uid, "ok",
                          [status |-> response.status, view |-> "job",
                           text |-> "", message |-> << >>])
               ELSE Reply("page.jobDetail", uid, "NotFoundError",
                          [status |-> response.status]
                          @@ ErrorView(ErrorMessage(response)))
    /\ UNCHANGED <<users, actions, issued, now, tables, pc, hist>>

-----------------------------------------------------------------------------
(* Specification SpecPage: two users open job pages, of jobs that exist,   *)
(* that are the other user's, and that were deleted                        *)

PageJobIds == {1, 2}

\* bodies of a 404 answer: a detail text, the framework's default detail, a
\* detail that names the status, an empty detail, JSON without a detail, and
\* a body that is not JSON
NotFoundBodies ==
    {[json |-> TRUE, body |-> [detail |-> <<"J", "o", "b", " ", "n", "o", "t", " ", "f", "o", "u", "n", "d">>]],
     [json |-> TRUE, body |-> [detail |-> <<"N", "o", "t", " ", "F", "o", "u", "n", "d">>]],
     [json |-> TRUE, body |-> [detail |-> <<"4", "0", "4", ":", " ", "J", "o", "b", " ", "n", "o", "t", " ", "f", "o", "u", "n", "d">>]],
     [json |-> TRUE, body |-> [detail |-> << >>]],
     [json |-> TRUE, body |-> [error |-> <<"N", "o", "t", " ", "F", "o", "u", "n", "d">>]],
     [json |-> FALSE, body |-> NullJson]}

NextPage ==
    \/ \E u \in Users, id \in PageJobIds : CreateJob(u, id, [jd_raw |-> <<"a">>])
    \/ \E u \in Users, id \in PageJobIds : DeleteJob(u, id)
    \/ \E u \in Users, id \in PageJobIds, body \in NotFoundBodies : ViewJob(u, id, body)

SpecPage == Init /\ [][NextPage]_vars

\* C9: whenever the job-detail request is answered 404, for a job that is
\* missing or one that is another user's, the page shows the generic
\* message, whatever the body of the answer.
C9_NotFoundShowsGeneric ==
    last.op = "page.jobDetail" /\ last.body.status = 404 =>
        last.body.view = "not-found" /\ last.body.text = GenericNotFound

-----------------------------------------------------------------------------
(* Specification SpecReplace: saves of one job's variant with different    *)
(* skill and coursework lists, tailoring passes in between                 *)

CourseworkInputs == {<< >>, <<[name |-> "Algorithms"]>>,
                     <<[name |-> "Databases"], [name |-> "Algorithms"]>>}

NextReplace ==
    \/ CreateJob("A", 1, [jd_raw |-> <<"a">>])
    \/ \E c \in Conns, S \in VariantSkillInputs, C \in CourseworkInputs :
          UpdateVariantBegin(c, "A", 1, S, C)
    \/ \E c \in Conns : UpdateVariantWrite(c)
    \/ TailoringPass("A", 1, TailorCandidates)
    \/ GetVariant("A", 1)

SpecReplace == Init /\ [][NextReplace]_vars

-----------------------------------------------------------------------------
(* Specification SpecAnalyze: analyses of empty and non-empty texts, with  *)
(* and without a job, from the client and from the job page's button       *)

AnalyzeJobIds == {1, 2}

AnalyzeTexts == {<< >>, <<"a">>}

NextAnalyze ==
    \/ \E id \in AnalyzeJobIds, t \in AnalyzeTexts : CreateJob("A", id, [jd_raw |-> t])
    \/ \E id \in AnalyzeJobIds \cup {NullId}, t \in AnalyzeTexts : AnalyzeJD("A", t, id)
    \/ \E id \in AnalyzeJobIds, t \in AnalyzeTexts : ClickAnalyze("A", id, t)
    \/ \E id \in AnalyzeJobIds : GetJob("A", id)

SpecAnalyze == Init /\ [][NextAnalyze]_vars

\* C13: an analyze-JD request with an empty jd_text, sent by the client or by
\* the Analyze button of a job page whose text box and job text are both
\* empty, is answered ValidationError and changes no table.
C13_EmptyAnalyzeRejected ==
    /\ [][\A id \in AnalyzeJobIds \cup {NullId} :
            AnalyzeJD("A", << >>, id) =>
                /\ last'.op = "jobs.analyzeJD" /\ last'.outcome = "ValidationError"
                /\ UNCHANGED tables]_vars
    /\ [][\A id \in AnalyzeJobIds :
            (/\ ClickAnalyze("A", id, << >>)
             /\ \A j \in JobById("A", id) : j.jd_raw = << >>) =>
                /\ last'.op = "jobs.analyzeJD" /\ last'.outcome = "ValidationError"
                /\ UNCHANGED tables]_vars

\* the button's empty request was refused on a job without text, another
\* job holding spans
C13_Witness ==
    /\ last.op = "jobs.analyzeJD" /\ last.outcome = "ValidationError"
    /\ \E j \in jobs : j.jd_raw = << >> /\ j.jd_spans_json = NullJson
    /\ \E j \in jobs : j.jd_spans_json # NullJson

-----------------------------------------------------------------------------
(* Specification SpecActions: events are recorded about jobs that are      *)
(* then updated and deleted, while time passes                             *)

ActionIds == {1, 2}
ActionJobIds == {1}
ActionTypeInputs == {"job_added", "applied", "job_deleted"}
ActionsMaxClock == 1

NextActions ==
    \/ \E id \in ActionJobIds : CreateJob("A", id, [jd_raw |-> <<"a">>])
    \/ \E id \in ActionJobIds : UpdateJob("A", id, [status |-> "Applied"])
    \/ \E aid \in ActionIds, id \in ActionJobIds \cup {NullId}, type \in ActionTypeInputs :
          InsertAction("A", aid, id, type, NullJson)
    \/ \E id \in ActionJobIds : GenerateCoverLetter("A", id, "t")
    \/ \E id \in ActionJobIds : DeleteJob("A", id)
    \/ Tick(ActionsMaxClock)

SpecActions == Init /\ [][NextActions]_vars

\* C15: every row of actions is, after every step of the application, still
\* in the table with the same user_id, job_id, type, meta and created_at;
\* the deletion of the job a row refers to is such a step.
C15_ActionsImmutable ==
    [][\A a \in actions : a \in actions']_vars

-----------------------------------------------------------------------------
(* Specification SpecUsers: two users fill their tables, and users are     *)
(* deleted while requests of theirs are in flight                          *)

UserJobIds == {1, 2}

NextUsers ==
    \/ \E u \in Users, id \in UserJobIds : CreateJob(u, id, [jd_raw |-> <<"a">>])
    \/ \E u \in Users : UploadMasterBegin(1, u, <<"s">>)
    \/ UploadMasterWrite(1)
    \/ \E u \in Users, id \in UserJobIds : UpdateVariantBegin(1, u, id, << >>, << >>)
    \/ UpdateVariantWrite(1)
    \/ \E u \in Users, id \in UserJobIds : GenerateCoverLetter(u, id, "t")
    \/ \E u \in Users, id \in UserJobIds : CreateContact(u, 1, [name |-> "n", job_id |-> id])
    \/ \E u \in Users, id \in UserJobIds : InsertAction(u, 1, id, "job_added", NullJson)
    \/ \E u \in Users : DeleteUser(u)

SpecUsers == Init /\ [][NextUsers]_vars

\* the rows of actions user b owns
OwnActions(A, b) == {a \in A : a.user_id = b}

\* C16: the step that deletes a user leaves no resume_master, jobs,
\* resume_variant, cover_letters, outreach_contacts or actions row of that
\* user, owned directly or through a job, and leaves the rows of every other
\* user as they were; no later step brings a row of a deleted user back.
C16_UserDeleteCascades ==
    /\ [][\A u \in users \ users' :
            \A b \in Users \ {u} :
                /\ OwnRows(jobs', resume_master', resume_variant', cover_letters',
                           outreach_contacts', b)
                   = OwnRows(jobs, resume_master, resume_variant, cover_letters,
                             outreach_contacts, b)
                /\ OwnActions(actions', b) = OwnActions(actions, b)]_vars
    /\ [](\A u \in Users \ users :
            /\ OwnRows(jobs, resume_master, resume_variant, cover_letters,
                       outreach_contacts, u) = <<{}, {}, {}, {}, {}>>
            /\ OwnActions(actions, u) = {}
            /\ \A l \in cover_letters : JobsFk(l.job_id)
            /\ \A v \in resume_variant : JobsFk(v.job_id))

\* A is deleted, its job with it, and B has a row in every table
C16_Witness ==
    /\ users = {"B"} /\ issued = UserJobIds /\ Cardinality(jobs) = 1
    /\ resume_master # {} /\ resume_variant # {} /\ cover_letters # {}
    /\ outreach_contacts # {} /\ actions # {}

-----------------------------------------------------------------------------
(* The pages' API calls: useQuery / useMutation around apiRequest.  A call  *)
(* in flight occupies a slot of pc; sent counts the requests it has sent.  *)

\* the retry option of a call: retry: false, or none
RetryFalse == [given |-> TRUE, retries |-> 0]

NoOption == [given |-> FALSE, retries |-> 0]

PageCalls ==
    {[page |-> "DashboardPage", call |-> "jobs.list", kind |-> "query", retry |-> RetryFalse],
     [page |-> "JobDetailPage", call |-> "jobs.get", kind |-> "query", retry |-> RetryFalse],
     [page |-> "ResumePage", call |-> "resume.getMaster", kind |-> "query",
      retry |-> NoOption],
     [page |-> "ResumePage", call |-> "resume.uploadMaster", kind |-> "mutation",
      retry |-> NoOption],
     [page |-> "JobDetailPage", call |-> "jobs.analyzeJD", kind |-> "mutation",
      retry |-> NoOption]}

\* The defaults of the query client the pages run under.  The client is
\* made outside the pages; a client made without options retries a failed
\* query three times and a failed mutation never, one made with
\* retry: false retries neither.
ClientDefaults == {[query |-> 3, mutation |-> 0], [query |-> 0, mutation |-> 0]}

\* the number of retries of a call under a client: the call's option, the
\* client's default without one
RetryOf(call, defaults) ==
    IF call.retry.given THEN call.retry.retries ELSE defaults[call.kind]

\* a page issues a call: apiRequest sends one request
CallStart(c, uid, call, defaults) ==
    /\ pc[c] = Idle
    /\ pc' = [pc EXCEPT ![c] = [op |-> "call", user |-> uid, call |-> call.call,
                                retry |-> RetryOf(call, defaults), sent |-> 1]]
    /\ UNCHANGED <<users, actions, issued, now, tables, last, hist>>

\* the request in flight fails (apiRequest throws): the call is sent again
\* while retries are left, and its error is given to the page when none is
CallFails(c) ==
    LET h == pc[c] IN
    /\ h.op = "call"
    /\ IF h.sent <= h.retry
       THEN /\ pc' = [pc EXCEPT ![c] = [h EXCEPT !.sent = h.sent + 1]]
            /\ last' = last
       ELSE /\ pc' = [pc EXCEPT ![c] = Idle]
            /\ last' = Reply(h.call, h.user, "error", [sent |-> h.sent])
    /\ UNCHANGED <<users, actions, issued, now, tables, hist>>

\* the request in flight is answered with data
CallSucceeds(c) ==
    LET h == pc[c] IN
    /\ h.op = "call"
    /\ pc' = [pc EXCEPT ![c] = Idle]
    /\ last' = Reply(h.call, h.user, "data", [sent |-> h.sent])
    /\ UNCHANGED <<users, actions, issued, now, tables, hist>>

-----------------------------------------------------------------------------
(* Specification SpecRetry: pages issue calls that fail or succeed *)

NextRetry ==
    \/ \E c \in Conns, u \in Users, call \in PageCalls, d \in ClientDefaults :
          CallStart(c, u, call, d)
    \/ \E c \in Conns : CallFails(c)
    \/ \E c \in Conns : CallSucceeds(c)

SpecRetry == Init /\ [][NextRetry]_vars

\* C17: a call of a page that ends in an error has sent exactly one request,
\* and a call in flight has sent one.
C17_NoAutomaticRetry ==
    /\ last.outcome = "error" => last.body.sent = 1
    /\ \A c \in Conns : pc[c] # Idle => pc[c].sent = 1

-----------------------------------------------------------------------------
(* Specification SpecUpstream: analyses, variant saves and cover-letter    *)
(* generations of one job, any of which the collaborator can fail          *)

UpstreamJobIds == {1}

NextUpstream ==
    \/ \E id \in UpstreamJobIds : CreateJob("A", id, [jd_raw |-> <<"a">>])
    \/ \E id \in UpstreamJobIds \cup {NullId} : AnalyzeJD("A", <<"b">>, id)
    \/ \E c \in Conns, id \in UpstreamJobIds, S \in {<< >>, <<Python>>} :
          UpdateVariantBegin(c, "A", id, S, << >>)
    \/ \E c \in Conns : UpdateVariantWrite(c)
    \/ \E c \in Conns, id \in UpstreamJobIds, text \in {"g", "h"} :
          GenerateCoverLetterBegin(c, "A", id, text)
    \/ \E c \in Conns : GenerateCoverLetterWrite(c)

SpecUpstream == Init /\ [][NextUpstream]_vars

-----------------------------------------------------------------------------
(* Specification SpecLetter: two connections generate and edit the cover   *)
(* letters of two jobs                                                     *)

LetterJobIds == {1, 2}

NextLetter ==
    \/ \E id \in LetterJobIds : CreateJob("A", id, [jd_raw |-> <<"a">>])
    \/ \E c \in Conns, id \in LetterJobIds : GenerateCoverLetterBegin(c, "A", id, "g")
    \/ \E c \in Conns : GenerateCoverLetterWrite(c)
    \/ \E id \in LetterJobIds : UpdateCoverLetter("A", id, "u")
    \/ \E id \in LetterJobIds : GetCoverLetter("A", id)

SpecLetter == Init /\ [][NextLetter]_vars

\* C20: no two cover_letters rows have the same job_id, and a generation
\* for a job that has a letter leaves the number of rows as it was.
C20_OneLetterPerJob ==
    /\ [](\A l1 \in cover_letters, l2 \in cover_letters :
             l1.job_id = l2.job_id => l1 = l2)
    /\ [][\A c \in Conns :
            /\ GenerateCoverLetterWrite(c)
            /\ \E l \in cover_letters : l.job_id = pc[c].job_id
            => Cardinality(cover_letters') = Cardinality(cover_letters)]_vars

\* the second of two racing first generations was refused, each job having
\* one letter
C20_Witness ==
    /\ last.op = "coverLetter.generate" /\ last.outcome = "ConflictError"
    /\ Cardinality(cover_letters) = 2
    /\ \E l \in cover_letters : l.text = "u"

-----------------------------------------------------------------------------
(* apiRequest, await by await.  A call occupies a slot of pc; elapsed is   *)
(* the time, in seconds, since its timer was set.                          *)

\* setTimeout(() => controller.abort(), 10000)
TimeoutSeconds == 10

TimedOut == "Request timed out. The API might be sleeping or unavailable."

\* a session as getSession() yields it: null, or an object whose
\* access_token is a string, "" included
Sessions(uid) == {NullJson, [access_token |-> << >>], [access_token |-> <<uid>>]}

HasAccessTokenMutant(session) == session # NullJson

\* session?.access_token
HasAccessToken(session) == session # NullJson /\ session.access_token # << >>

\* the headers getAuthHeaders() returns for a session with a token
getAuthHeaders(session) ==
    [name \in {"Authorization", "Content-Type"} |->
        IF name = "Authorization" THEN <<"Bearer">> \o session.access_token
        ELSE <<"application/json">>]

\* the options of the calls in resumeApi, jobsApi and coverLetterApi: a
\* method and a body at most, no headers
CallOptions == [headers |-> << >>]

NoRequest == [sent |-> FALSE, headers |-> << >>]

\* fetch(url, { ...options, signal, headers: { ...headers, ...options.headers } })
Fetch(headers, options) ==
    [sent |-> TRUE,
     headers |-> [name \in DOMAIN headers \cup DOMAIN options.headers |->
                     IF name \in DOMAIN options.headers THEN options.headers[name]
                     ELSE headers[name]]]

\* the call settles: how, with what message, and the request it sent
Settled(h, outcome, message) ==
    Reply("apiRequest", h.user, outcome,
          [message |-> message, session |-> h.session, request |-> h.request])

\* apiRequest is called: it awaits getAuthHeaders(), which awaits
\* supabase.auth.getSession(); no timer is set yet
ApiStart(c, uid) ==
    /\ pc[c] = Idle
    /\ pc' = [pc EXCEPT ![c] = [op |-> "api", user |-> uid, phase |-> "session",
                                elapsed |-> 0, ok |-> FALSE, options |-> CallOptions,
                                session |-> NullJson, request |-> NoRequest]]
    /\ UNCHANGED <<users, actions, issued, now, tables, last, hist>>

\* getSession() resolves: without an access token the call rejects, with
\* one the timer is set and the fetch is issued
SessionResolves(c, session) ==
    LET h == [pc[c] EXCEPT !.session = session] IN
    /\ h.op = "api" /\ h.phase = "session"
    /\ session \in Sessions(h.user)
    /\ IF HasAccessToken(session)
       THEN /\ pc' = [pc EXCEPT ![c] =
                        [h EXCEPT !.phase = "fetch",
                                  !.request = Fetch(getAuthHeaders(session), h.options)]]
            /\ last' = last
       ELSE /\ pc' = [pc EXCEPT ![c] = Idle]
            /\ last' = Settled(h, "rejected", "Not authenticated")
    /\ UNCHANGED <<users, actions, issued, now, tables, hist>>

\* a second passes while the fetch is awaited
TimerTick(c) ==
    LET h == pc[c] IN
    /\ h.op = "api" /\ h.phase = "fetch" /\ h.elapsed < TimeoutSeconds
    /\ pc' = [pc EXCEPT ![c] = [h EXCEPT !.elapsed = h.elapsed + 1]]
    /\ UNCHANGED <<users, actions, issued, now, tables, last, hist>>

\* the timer fires: controller.abort(), the fetch rejects with AbortError
\* and the call rejects with the time-out message
TimerFires(c) ==
    LET h == pc[c] IN
    /\ h.op = "api" /\ h.phase = "fetch" /\ h.elapsed = TimeoutSeconds
    /\ pc' = [pc EXCEPT ![c] = Idle]
    /\ last' = Settled(h, "rejected", TimedOut)
    /\ UNCHANGED <<users, actions, issued, now, tables, hist>>

\* the fetch resolves with the response's status line and headers:
\* clearTimeout(timeoutId), then the body is awaited (response.json())
ServerAnswers(c, ok) ==
    LET h == pc[c] IN
    /\ h.op = "api" /\ h.phase = "fetch"
    /\ pc' = [pc EXCEPT ![c] = [h EXCEPT !.phase = "body", !.ok = ok]]
    /\ UNCHANGED <<users, actions, issued, now, tables, last, hist>>

\* the fetch rejects (no connection): clearTimeout(timeoutId), rethrown
FetchFails(c) ==
    LET h == pc[c] IN
    /\ h.op = "api" /\ h.phase = "fetch"
    /\ pc' = [pc EXCEPT ![c] = Idle]
    /\ last' = Settled(h, "rejected", "Failed to fetch")
    /\ UNCHANGED <<users, actions, issued, now, tables, hist>>

\* response.json() settles: data of an OK response, an error otherwise
BodyRead(c, json) ==
    LET h == pc[c] IN
    /\ h.op = "api" /\ h.phase = "body"
    /\ pc' = [pc EXCEPT ![c] = Idle]
    /\ last' = IF h.ok /\ json
               THEN Settled(h, "resolved", "data")
               ELSE Settled(h, "rejected", "error")
    /\ UNCHANGED <<users, actions, issued, now, tables, hist>>

-----------------------------------------------------------------------------
(* Specification SpecApi: calls of apiRequest; time passes and the timer   *)
(* fires, the session store and the server answer or do not                *)

NextApi ==
    \/ \E c \in Conns, u \in Users : ApiStart(c, u)
    \/ \E c \in Conns, u \in Users : \E session \in Sessions(u) : SessionResolves(c, session)
    \/ \E c \in Conns : TimerTick(c)
    \/ \E c \in Conns : TimerFires(c)
    \/ \E c \in Conns, ok \in BOOLEAN : ServerAnswers(c, ok)
    \/ \E c \in Conns : FetchFails(c)
    \/ \E c \in Conns, json \in BOOLEAN : BodyRead(c, json)

SpecApi ==
    /\ Init /\ [][NextApi]_vars
    /\ \A c \in Conns : WF_vars(TimerTick(c)) /\ WF_vars(TimerFires(c))

\* C19: every call of apiRequest settles.
C19_EveryCallSettles ==
    \A c \in Conns : (pc[c].op = "api") ~> (pc[c] = Idle)

-----------------------------------------------------------------------------
(* Specification SpecHeaders: calls of apiRequest under every session      *)
(* getSession can yield, answered before the timer fires                   *)

NextHeaders ==
    \/ \E c \in Conns, u \in Users : ApiStart(c, u)
    \/ \E c \in Conns, u \in Users : \E session \in Sessions(u) : SessionResolves(c, session)
    \/ \E c \in Conns, ok \in BOOLEAN : ServerAnswers(c, ok)
    \/ \E c \in Conns : FetchFails(c)
    \/ \E c \in Conns, json \in BOOLEAN : BodyRead(c, json)

SpecHeaders == Init /\ [][NextHeaders]_vars

\* the request carries Authorization: Bearer <the session's access token>
Authorized(request, session) ==
    /\ session # NullJson
    /\ session.access_token # << >>
    /\ "Authorization" \in DOMAIN request.headers
    /\ request.headers["Authorization"] = <<"Bearer">> \o session.access_token

\* C28: a call whose getSession yielded no access token rejects with
\* 'Not authenticated' and has sent no request; every request that is sent
\* carries Authorization: Bearer <the access token of that session>.
C28_NoRequestWithoutSession ==
    /\ \A c \in Conns :
         (pc[c].op = "api" /\ pc[c].request.sent) => Authorized(pc[c].request, pc[c].session)
    /\ last.op = "apiRequest" =>
         /\ last.body.request.sent => Authorized(last.body.request, last.body.session)
         /\ (last.body.session = NullJson \/ last.body.session.access_token = << >>) =>
               /\ ~last.body.request.sent
               /\ last.outcome = "rejected"
               /\ last.body.message = "Not authenticated"

C28_Witness ==
    /\ last.op = "apiRequest" /\ last.outcome = "rejected"
    /\ last.body.session = [access_token |-> << >>]
    /\ \E c \in Conns : pc[c].op = "api" /\ pc[c].request.sent
                          /\ pc[c].request.headers["Authorization"] = <<"Bearer", "B">>

-----------------------------------------------------------------------------
(* Specification SpecOrder: jobs whose span lists hold two spans, and the  *)
(* job as jobsApi.get hands it to the page                                 *)

OrderJobIds == {1, 2}

OrderText == <<"a", "b", "c">>

OrderInputs ==
    {NoSpans,
     [NoSpans EXCEPT !.requirements = <<<<0, 1>>, <<1, 3>>>>],
     [NoSpans EXCEPT !.requirements = <<<<1, 3>>, <<0, 1>>>>],
     [NoSpans EXCEPT !.requirements = <<<<0, 2>>>>, !.responsibilities = <<<<1, 3>>>>],
     [NoSpans EXCEPT !.nice_to_haves = <<<<2, 3>>, <<0, 3>>>>]}

NextOrder ==
    \/ \E u \in Users, id \in OrderJobIds : CreateJob(u, id, [jd_raw |-> OrderText])
    \/ \E u \in Users, id \in OrderJobIds, v \in OrderInputs :
         UpdateJob(u, id, [jd_spans_json |-> v])
    \/ \E u \in Users, id \in OrderJobIds : AnalyzeJD(u, <<"a">>, id)
    \/ \E u \in Users, id \in OrderJobIds : GetJob(u, id)

SpecOrder == Init /\ [][NextOrder]_vars

\* the spans of a list are in non-decreasing order of start offset
InStartOrder(list) ==
    \A i \in 1..Len(list) : \A j \in 1..Len(list) : i < j => list[i][1] <= list[j][1]

-----------------------------------------------------------------------------
(* middleware.ts.  A path is the sequence of its pieces, "/" included, so  *)
(* that startsWith is a prefix test.  A navigation occupies a slot of pc:  *)
(* the path asked for first, the path of the request now on its way,       *)
(* whether the request's cookies hold a session, the environment           *)
(* variables, and the redirects followed so far.                           *)

Login == <<"/", "login">>
Dashboard == <<"/", "dashboard">>

StartsWith(path, prefix) ==
    Len(path) >= Len(prefix) /\ SubSeq(path, 1, Len(prefix)) = prefix

\* config.matcher: ["/dashboard/:path*", "/login"]
Matcher(path) ==
    \/ path = Dashboard
    \/ StartsWith(path, Dashboard \o <<"/">>)
    \/ path = Login

\* a variable of process.env: its value is a non-empty string or it is unset
EnvVars == [NEXT_PUBLIC_SUPABASE_URL : BOOLEAN, NEXT_PUBLIC_SUPABASE_ANON_KEY : BOOLEAN]

\* the response of middleware(req): NextResponse.next() or a redirect
middleware(path, session, env) ==
    IF ~env.NEXT_PUBLIC_SUPABASE_URL \/ ~env.NEXT_PUBLIC_SUPABASE_ANON_KEY
    THEN [kind |-> "next", location |-> path]
    ELSE IF StartsWith(path, Dashboard) /\ ~session
    THEN [kind |-> "redirect", location |-> Login]
    ELSE IF path = Login /\ session
    THEN [kind |-> "redirect", location |-> Dashboard]
    ELSE [kind |-> "next", location |-> path]

\* redirects a browser follows before it gives the navigation up
MaxRedirects == 3

\* the browser asks for a path
Navigate(c, path, session, env) ==
    /\ pc[c] = Idle
    /\ pc' = [pc EXCEPT ![c] = [op |-> "nav", from |-> path, path |-> path,
                                session |-> session, env |-> env, redirects |-> 0]]
    /\ UNCHANGED <<users, actions, issued, now, tables, last, hist>>

NavBody(h, location) ==
    [from |-> h.from, path |-> h.path, session |-> h.session, env |-> h.env,
     redirects |-> h.redirects, location |-> location]

\* the request reaches the middleware; the browser follows a redirect
RunMiddleware(c) ==
    LET h == pc[c]
        r == middleware(h.path, h.session, h.env) IN
    /\ h.op = "nav" /\ Matcher(h.path)
    /\ last' = Reply("middleware", NULL, r.kind, NavBody(h, r.location))
    /\ pc' = [pc EXCEPT ![c] =
                 IF r.kind = "redirect" /\ h.redirects < MaxRedirects
                 THEN [h EXCEPT !.path = r.location, !.redirects = h.redirects + 1]
                 ELSE Idle]
    /\ UNCHANGED <<users, actions, issued, now, tables, hist>>

\* a path outside the matcher: the middleware is not run
ServePage(c) ==
    LET h == pc[c] IN
    /\ h.op = "nav" /\ ~Matcher(h.path)
    /\ last' = Reply("page", NULL, "next", NavBody(h, h.path))
    /\ pc' = [pc EXCEPT ![c] = Idle]
    /\ UNCHANGED <<users, actions, issued, now, tables, hist>>

-----------------------------------------------------------------------------
(* Specification SpecMiddleware: navigations with and without a session,   *)
(* under every setting of the two environment variables                    *)

NavPaths ==
    {Login, Dashboard, Dashboard \o <<"/", "jobs">>, Dashboard \o <<"s">>,
     <<"/">>, Login \o <<"/", "x">>}

NextMiddleware ==
    \/ \E c \in Conns, path \in NavPaths, session \in BOOLEAN, env \in EnvVars :
         Navigate(c, path, session, env)
    \/ \E c \in Conns : RunMiddleware(c)
    \/ \E c \in Conns : ServePage(c)

SpecMiddleware == Init /\ [][NextMiddleware]_vars

\* C22: a request to a path that starts with /dashboard and carries no
\* session is answered by the middleware with a redirect to /login.
C22_DashboardNeedsSession ==
    (last.op = "middleware" /\ StartsWith(last.body.path, Dashboard) /\ ~last.body.session)
        => (last.outcome = "redirect" /\ last.body.location = Login)

\* the navigation has ended on the page of last.body.path
Ended == last.op = "middleware" /\ last.outcome = "next"

\* C23: no navigation follows more than one redirect; with a session
\* /login ends on /dashboard, without one a /dashboard path ends on /login.
C23_NoRedirectLoop ==
    /\ \A c \in Conns : pc[c].op = "nav" => pc[c].redirects <= 1
    /\ Ended =>
         /\ last.body.redirects <= 1
         /\ (last.body.from = Login /\ last.body.session) => last.body.path = Dashboard
         /\ (StartsWith(last.body.from, Dashboard) /\ ~last.body.session)
               => last.body.path = Login

-----------------------------------------------------------------------------
(* app/auth/callback/route.ts.  A URL string is the sequence of its        *)
(* pieces; an origin is a scheme and a host; a query parameter is the      *)
(* sequence of its pieces, NullText when the URL does not carry it.        *)

AppOrigin == [scheme |-> "https:", host |-> "app.example"]

\* a string in a condition: null and "" are falsy
Truthy(text) == text # NullText /\ text # << >>

PathOf(pieces) == IF pieces = << >> THEN <<"/">> ELSE pieces

\* new URL(input, base) for a base that is an origin: an absolute input
\* keeps its own origin, "//host/..." takes the base's scheme only, a path
\* is put on the base's origin
URL(input, base) ==
    IF Len(input) >= 3 /\ input[1] \in {"https:", "http:"} /\ input[2] = "//"
    THEN [origin |-> [scheme |-> input[1], host |-> input[3]],
          path |-> PathOf(SubSeq(input, 4, Len(input)))]
    ELSE IF Len(input) >= 2 /\ input[1] = "//"
    THEN [origin |-> [scheme |-> base.scheme, host |-> input[2]],
          path |-> PathOf(SubSeq(input, 3, Len(input)))]
    ELSE IF input # << >> /\ input[1] = "/"
    THEN [origin |-> base, path |-> input]
    ELSE [origin |-> base, path |-> <<"/">> \o input]

\* requestUrl.searchParams.get("next") || "/dashboard"
NextOf(next) == IF Truthy(next) THEN next ELSE Dashboard

\* NextResponse.redirect(new URL(target + "?error=...", origin)); error is
\* the value of the error parameter, << >> when there is none
Redirect(target, origin, error) ==
    [kind |-> "redirect", location |-> URL(target, origin) @@ [error |-> error]]

\* new NextResponse(text, { status })
Debug(status) ==
    [kind |-> "debug", status |-> status]

ExpiredLink == <<"Your confirmation link has expired. Please request a new confirmation email.">>

\* error.message.includes("expired") || error.message.includes("invalid") ? ... : error.message
ErrorMsg(message) ==
    IF Includes(message, <<"expired">>) \/ Includes(message, <<"invalid">>)
    THEN ExpiredLink ELSE message

\* response.cookies.set({ name, value, ...options }): one cookie per name
CookieSet(jar, cookie) ==
    [n \in DOMAIN jar \cup {cookie.name} |-> IF n = cookie.name THEN cookie.fields ELSE jar[n]]

\* the cookies.set / cookies.remove handlers given to createServerClient
CookieHandler(jar, call) ==
    IF call.op = "set"
    THEN CookieSet(jar, [name |-> call.name,
                         fields |-> [value |-> call.value, maxAge |-> call.maxAge,
                                     path |-> call.path, secure |-> call.secure]])
    ELSE CookieSet(jar, [name |-> call.name,
                         fields |-> [value |-> "", maxAge |-> 0,
                                     path |-> call.path, secure |-> call.secure]])

\* response.cookies after the exchange has made its calls, in order
RECURSIVE ResponseCookies(_)
ResponseCookies(calls) ==
    IF calls = << >> THEN << >>
    ELSE CookieHandler(ResponseCookies(SubSeq(calls, 1, Len(calls) - 1)), calls[Len(calls)])

CopyCookiesMutant(jar) == << >>

\* cookies.forEach(cookie => redirectResponse.cookies.set(cookie.name,
\* cookie.value, { path: cookie.path || '/', maxAge, httpOnly,
\* secure: cookie.secure ?? true, sameSite }))
CopyCookies(jar) ==
    [n \in DOMAIN jar |->
        [value |-> jar[n].value, maxAge |-> jar[n].maxAge,
         path |-> IF Truthy(jar[n].path) THEN jar[n].path ELSE <<"/">>,
         secure |-> IF jar[n].secure = Absent THEN "true" ELSE jar[n].secure]]

ExchangeFailedMutant(exchange) == exchange.throws

\* if (error): the exchange threw (error = { message }) or returned an error
ExchangeFailed(exchange) == exchange.throws \/ exchange.error # << >>

\* the response of GET: exchange is what exchangeCodeForSession does when
\* it is called (it throws, or returns an error and data, making calls of
\* the cookie handlers)
CallbackResponse(origin, code, next, debug, env, exchange) ==
    IF ~Truthy(code)
    THEN IF debug THEN Debug(400) ELSE Redirect(Login, origin, << >>)
    ELSE IF ~env.NEXT_PUBLIC_SUPABASE_URL \/ ~env.NEXT_PUBLIC_SUPABASE_ANON_KEY
    THEN IF debug THEN Debug(500) ELSE Redirect(Login, origin, <<"config">>)
    ELSE IF exchange.throws /\ debug
    THEN Debug(500)
    ELSE IF ExchangeFailed(exchange)
    THEN IF debug THEN Debug(400)
         ELSE Redirect(Login, origin, ErrorMsg(exchange.error))
    ELSE IF exchange.data # "session"
    THEN IF debug THEN Debug(400)
         ELSE Redirect(Login, origin, <<"No session created">>)
    ELSE IF debug THEN Debug(200)
    ELSE Redirect(NextOf(next), origin, << >>)
           @@ [cookies |-> CopyCookies(ResponseCookies(exchange.calls))]

\* GET /auth/callback
CallbackGET(code, next, debug, env, exchange) ==
    LET r == CallbackResponse(AppOrigin, code, next, debug, env, exchange) IN
    /\ last' = Reply("auth.callback", NULL, r.kind,
                     [origin |-> AppOrigin, code |-> code, next |-> next, debug |-> debug,
                      env |-> env, exchange |-> exchange, response |-> r])
    /\ UNCHANGED <<users, actions, issued, now, tables, pc, hist>>

-----------------------------------------------------------------------------
(* Specification SpecCallback: requests to /auth/callback over the query   *)
(* parameters, the environment and the outcomes of the code exchange       *)

Codes == {NullText, << >>, <<"c1">>}

NextParams ==
    {NullText, << >>, Login, Dashboard \o <<"/", "jobs">>, <<"settings">>,
     <<"https:", "//", "evil.example", "/", "x">>, <<"//", "evil.example">>}

SetCall(name, value, path) ==
    [op |-> "set", name |-> name, value |-> value, maxAge |-> 3600,
     path |-> path, secure |-> Absent]

RemoveCall(name) ==
    [op |-> "remove", name |-> name, value |-> "", maxAge |-> 0,
     path |-> <<"/">>, secure |-> "false"]

CookieCalls ==
    {<<SetCall("sb-auth-token", "v1", <<"/">>)>>,
     <<SetCall("sb-auth-token", "v1", NullText)>>,
     <<SetCall("sb-auth-token.0", "v1", <<"/">>), SetCall("sb-auth-token.1", "v2", <<"/">>)>>,
     <<RemoveCall("sb-code-verifier"), SetCall("sb-auth-token", "v1", <<"/">>)>>,
     <<SetCall("sb-auth-token", "v1", <<"/">>), SetCall("sb-auth-token", "v2", <<"/">>)>>}

Exchanges ==
    {[throws |-> TRUE, error |-> <<"fetch", "failed">>, data |-> "null", calls |-> << >>],
     [throws |-> FALSE, error |-> <<"code", "expired">>, data |-> "nosession", calls |-> << >>],
     [throws |-> FALSE, error |-> <<"invalid", "grant">>, data |-> "null", calls |-> << >>],
     [throws |-> FALSE, error |-> <<"rate", "limit">>, data |-> "session", calls |-> << >>],
     [throws |-> FALSE, error |-> << >>, data |-> "nosession", calls |-> << >>],
     [throws |-> FALSE, error |-> << >>, data |-> "null", calls |-> << >>]}
    \cup {[throws |-> FALSE, error |-> << >>, data |-> "session", calls |-> calls] :
            calls \in CookieCalls}

NextCallback ==
    \E code \in Codes, next \in NextParams, debug \in BOOLEAN, env \in EnvVars,
       exchange \in Exchanges : CallbackGET(code, next, debug, env, exchange)

SpecCallback == Init /\ [][NextCallback]_vars

\* the request carried a code, the environment is complete and the exchange
\* returned no error and a session
ExchangeSucceeded(b) ==
    /\ Truthy(b.code)
    /\ b.env.NEXT_PUBLIC_SUPABASE_URL /\ b.env.NEXT_PUBLIC_SUPABASE_ANON_KEY
    /\ ~b.exchange.throws /\ b.exchange.error = << >> /\ b.exchange.data = "session"

\* C24: unless the exchange succeeded the response is the debug response
\* (debug=true) or a redirect to /login on the request's origin, with an
\* error parameter when a code was given; when it succeeded and debug is
\* off the response is the redirect to `next` (default /dashboard).
C24_RedirectToNextOnlyOnSuccess ==
    last.op = "auth.callback" =>
        LET b == last.body
            r == last.body.response IN
        /\ ~ExchangeSucceeded(b) =>
              IF b.debug THEN r.kind = "debug"
              ELSE /\ r.kind = "redirect"
                   /\ r.location.origin = b.origin /\ r.location.path = Login
                   /\ Truthy(b.code) <=> r.location.error # << >>
        /\ ExchangeSucceeded(b) =>
              IF b.debug THEN r.kind = "debug" /\ r.status = 200
              ELSE /\ r.kind = "redirect"
                   /\ r.location = URL(NextOf(b.next), b.origin) @@ [error |-> << >>]

C24_Witness ==
    /\ last.op = "auth.callback" /\ ~last.body.debug
    /\ last.body.exchange.error = <<"rate", "limit">>
    /\ last.body.exchange.data = "session"
    /\ Truthy(last.body.code)
    /\ last.body.env.NEXT_PUBLIC_SUPABASE_URL /\ last.body.env.NEXT_PUBLIC_SUPABASE_ANON_KEY
    /\ last.body.next = Dashboard \o <<"/", "jobs">>
    /\ last.body.response.location.path = Login

\* C25: on a successful exchange every cookie the exchange set or removed
\* through the handlers is on the redirect response under its name with
\* the value it was last given (the empty value when removed).
C25_CookiesOnRedirect ==
    (last.op = "auth.callback" /\ ExchangeSucceeded(last.body) /\ last.outcome = "redirect") =>
        LET calls == last.body.exchange.calls
            cookies == last.body.response.cookies IN
        \A i \in 1..Len(calls) :
            (\A j \in (i + 1)..Len(calls) : calls[j].name # calls[i].name) =>
                /\ calls[i].name \in DOMAIN cookies
                /\ cookies[calls[i].name].value =
                      (IF calls[i].op = "remove" THEN "" ELSE calls[i].value)

C25_Witness ==
    /\ last.op = "auth.callback" /\ ExchangeSucceeded(last.body) /\ last.outcome = "redirect"
    /\ Len(last.body.exchange.calls) = 2
    /\ last.body.exchange.calls[1].op = "remove"
    /\ DOMAIN last.body.response.cookies = {"sb-code-verifier", "sb-auth-token"}

\* C26: every redirect of the callback has the origin of the request.
C26_RedirectSameOrigin ==
    (last.op = "auth.callback" /\ last.outcome = "redirect")
        => last.body.response.location.origin = last.body.origin

-----------------------------------------------------------------------------
(* LoginPage.handleSubmit, await by await.  A submission occupies a slot   *)
(* of pc: the flow, the await it is at, and what the auth provider has     *)
(* answered so far.  A message is the sequence of its words.               *)

NoResult == [rejects |-> FALSE, error |-> << >>, user |-> FALSE, session |-> FALSE]

\* String.prototype.toLowerCase, word by word
ToLowerCase(message) ==
    [i \in 1..Len(message) |->
        CASE message[i] = "Timeout" -> "timeout"
          [] message[i] = "User" -> "user"
          [] message[i] = "Password" -> "password"
          [] OTHER -> message[i]]

\* the alert chosen for result.error of signUp, and isSignUp after it
SignUpErrorAlert(message) ==
    LET errorMsg == ToLowerCase(message) IN
    IF Includes(errorMsg, <<"timeout">>) \/ Includes(errorMsg, <<"504">>)
    THEN [alert |-> "Sign up timed out.", isSignUp |-> TRUE]
    ELSE IF Includes(errorMsg, <<"503">>) \/ Includes(errorMsg, <<"service", "unavailable">>)
    THEN [alert |-> "Service unavailable (503).", isSignUp |-> TRUE]
    ELSE IF Includes(errorMsg, <<"already", "registered">>)
            \/ Includes(errorMsg, <<"user", "already">>)
    THEN [alert |-> "This email is already registered.", isSignUp |-> FALSE]
    ELSE IF Includes(errorMsg, <<"email">>) /\ Includes(errorMsg, <<"invalid">>)
    THEN [alert |-> "Invalid email address.", isSignUp |-> TRUE]
    ELSE IF Includes(errorMsg, <<"password">>)
    THEN [alert |-> "Password issue.", isSignUp |-> TRUE]
    ELSE [alert |-> "Sign up failed", isSignUp |-> TRUE]

SignUpOutcomeMutant(result) ==
    IF result.rejects
    THEN [outcome |-> "alert", alert |-> "Sign up request timed out.", isSignUp |-> TRUE]
    ELSE IF result.error # << >>
    THEN [outcome |-> "alert"] @@ SignUpErrorAlert(result.error)
    ELSE [outcome |-> "navigate", alert |-> "", isSignUp |-> TRUE]

\* what handleSubmit does with the settled race of the sign-up flow
SignUpOutcome(result) ==
    IF result.rejects
    THEN [outcome |-> "alert", alert |-> "Sign up request timed out.", isSignUp |-> TRUE]
    ELSE IF result.error # << >>
    THEN [outcome |-> "alert"] @@ SignUpErrorAlert(result.error)
    ELSE IF result.user /\ ~result.session
    THEN [outcome |-> "alert", alert |-> "Sign up successful!", isSignUp |-> FALSE]
    ELSE IF result.session
    THEN [outcome |-> "navigate", alert |-> "", isSignUp |-> TRUE]
    ELSE [outcome |-> "alert", alert |-> "Sign up successful!", isSignUp |-> FALSE]

\* what the submission ends with: the outcome and what the provider answered
Submitted(h, o) ==
    Reply("login.handleSubmit", NULL, o.outcome,
          [flow |-> h.flow, result |-> h.result, check |-> h.check,
           timedOut |-> h.timedOut, alert |-> o.alert, isSignUp |-> o.isSignUp,
           location |-> IF o.outcome = "navigate" THEN Dashboard ELSE Login])

\* the form is submitted: signUp or signInWithPassword is called
Submit(c, isSignUp) ==
    /\ pc[c] = Idle
    /\ pc' = [pc EXCEPT ![c] =
                 [op |-> "login", flow |-> IF isSignUp THEN "signUp" ELSE "signIn",
                  phase |-> IF isSignUp THEN "signUp" ELSE "signIn",
                  result |-> NoResult, check |-> "none", timedOut |-> FALSE]]
    /\ UNCHANGED <<users, actions, issued, now, tables, last, hist>>

\* Promise.race([signupPromise, timeoutPromise]) settles with signUp's
\* answer (the promise resolves or rejects)
SignUpSettles(c, result) ==
    LET h == [pc[c] EXCEPT !.result = result] IN
    /\ pc[c].op = "login" /\ pc[c].phase = "signUp"
    /\ last' = Submitted(h, SignUpOutcome(result))
    /\ pc' = [pc EXCEPT ![c] = Idle]
    /\ UNCHANGED <<users, actions, issued, now, tables, hist>>

\* the race settles with the timer's rejection after 30 s
SignUpTimesOut(c) ==
    LET h == [pc[c] EXCEPT !.timedOut = TRUE] IN
    /\ pc[c].op = "login" /\ pc[c].phase = "signUp"
    /\ last' = Submitted(h, [outcome |-> "alert", alert |-> "Sign up request timed out.",
                             isSignUp |-> TRUE])
    /\ pc' = [pc EXCEPT ![c] = Idle]
    /\ UNCHANGED <<users, actions, issued, now, tables, hist>>

\* signInWithPassword settles
SignInSettles(c, result) ==
    LET h == [pc[c] EXCEPT !.result = result] IN
    /\ pc[c].op = "login" /\ pc[c].phase = "signIn"
    /\ IF result.rejects
       THEN /\ last' = Submitted(h, [outcome |-> "alert", alert |-> "Error:", isSignUp |-> FALSE])
            /\ pc' = [pc EXCEPT ![c] = Idle]
       ELSE IF result.error # << >>
       THEN /\ last' = Submitted(h, [outcome |-> "alert", alert |-> "Login failed:",
                                     isSignUp |-> FALSE])
            /\ pc' = [pc EXCEPT ![c] = Idle]
       ELSE IF ~result.session
       THEN /\ last' = Submitted(h, [outcome |-> "alert",
                                     alert |-> "Login failed: No session received",
                                     isSignUp |-> FALSE])
            /\ pc' = [pc EXCEPT ![c] = Idle]
       ELSE /\ last' = last
            /\ pc' = [pc EXCEPT ![c] = [h EXCEPT !.phase = "wait500"]]
    /\ UNCHANGED <<users, actions, issued, now, tables, hist>>

\* await new Promise(resolve => setTimeout(resolve, 500)), then getSession()
\* is called
SessionWaitEnds(c) ==
    /\ pc[c].op = "login" /\ pc[c].phase = "wait500"
    /\ pc' = [pc EXCEPT ![c] = [pc[c] EXCEPT !.phase = "getSession"]]
    /\ UNCHANGED <<users, actions, issued, now, tables, last, hist>>

\* supabase.auth.getSession() settles: it rejects, or resolves with or
\* without a session
GetSessionSettles(c, check) ==
    LET h == [pc[c] EXCEPT !.check = check] IN
    /\ pc[c].op = "login" /\ pc[c].phase = "getSession"
    /\ IF check = "rejects"
       THEN /\ last' = Submitted(h, [outcome |-> "alert", alert |-> "Error:", isSignUp |-> FALSE])
            /\ pc' = [pc EXCEPT ![c] = Idle]
       ELSE IF check # "session"
       THEN /\ last' = Submitted(h, [outcome |-> "alert",
                                     alert |-> "Login failed: Session not set properly.",
                                     isSignUp |-> FALSE])
            /\ pc' = [pc EXCEPT ![c] = Idle]
       ELSE /\ last' = last
            /\ pc' = [pc EXCEPT ![c] = [h EXCEPT !.phase = "wait1000"]]
    /\ UNCHANGED <<users, actions, issued, now, tables, hist>>

\* the 1000 ms wait ends; with or without a Supabase cookie in
\* document.cookie, window.location.replace("/dashboard")
CookieWaitEnds(c, hasSupabaseCookie) ==
    /\ pc[c].op = "login" /\ pc[c].phase = "wait1000"
    /\ last' = Submitted(pc[c], [outcome |-> "navigate", alert |-> "", isSignUp |-> FALSE])
    /\ pc' = [pc EXCEPT ![c] = Idle]
    /\ UNCHANGED <<users, actions, issued, now, tables, hist>>

-----------------------------------------------------------------------------
(* Specification SpecLogin: submissions of the login form over the answers *)
(* of the auth provider                                                    *)

AuthErrors ==
    {<< >>, <<"Invalid", "login", "credentials">>, <<"User", "already", "registered">>,
     <<"Gateway", "Timeout">>, <<"Password", "should", "be", "longer">>}

AuthResults ==
    [rejects : {FALSE}, error : AuthErrors, user : BOOLEAN, session : BOOLEAN]
    \cup {[NoResult EXCEPT !.rejects = TRUE]}

SessionChecks == {"rejects", "nosession", "session"}

NextLogin ==
    \/ \E c \in Conns, isSignUp \in BOOLEAN : Submit(c, isSignUp)
    \/ \E c \in Conns, result \in AuthResults : SignUpSettles(c, result)
    \/ \E c \in Conns : SignUpTimesOut(c)
    \/ \E c \in Conns, result \in AuthResults : SignInSettles(c, result)
    \/ \E c \in Conns : SessionWaitEnds(c)
    \/ \E c \in Conns, check \in SessionChecks : GetSessionSettles(c, check)
    \/ \E c \in Conns, hasSupabaseCookie \in BOOLEAN : CookieWaitEnds(c, hasSupabaseCookie)

SpecLogin == Init /\ [][NextLogin]_vars

\* C27: a submission ends on /dashboard only when, in the sign-in flow,
\* signInWithPassword returned no error and a session and the getSession
\* that followed returned a session, and in the sign-up flow, signUp
\* returned a session; otherwise the page is still /login.
C27_NavigateOnlyWithSession ==
    last.op = "login.handleSubmit" =>
        LET b == last.body
            granted == ~b.result.rejects /\ b.result.error = << >> /\ b.result.session
                       /\ ~b.timedOut IN
        /\ b.location \in {Login, Dashboard}
        /\ b.location = Dashboard =>
              /\ granted
              /\ b.flow = "signIn" => b.check = "session"

C27_Witness ==
    /\ last.op = "login.handleSubmit" /\ last.body.location = Dashboard
    /\ last.body.flow = "signIn" /\ last.body.check = "session"
    /\ last.body.result.session

-----------------------------------------------------------------------------
(* app/route.ts.  A query string is the sequence of its parameters, each   *)
(* a name and a value, in the order of the URL (URLSearchParams).          *)

AuthCallback == <<"/", "auth", "/", "callback">>

\* searchParams.get(name): the first value of that name, null without one
SearchParamsGet(params, name) ==
    IF \E i \in 1..Len(params) : params[i].name = name
    THEN params[CHOOSE i \in 1..Len(params) :
                  /\ params[i].name = name
                  /\ \A j \in 1..(i - 1) : params[j].name # name].value
    ELSE NullText

\* searchParams.set(name, value): the first parameter of that name takes
\* the value and the others of that name are deleted; appended without one
SearchParamsSet(params, name, value) ==
    IF \E i \in 1..Len(params) : params[i].name = name
    THEN LET first == CHOOSE i \in 1..Len(params) :
                         /\ params[i].name = name
                         /\ \A j \in 1..(i - 1) : params[j].name # name
             keep == SelectSeq([i \in 1..Len(params) |->
                                  IF i = first THEN [name |-> name, value |-> value, keep |-> TRUE]
                                  ELSE [name |-> params[i].name, value |-> params[i].value,
                                        keep |-> params[i].name # name]],
                               LAMBDA p : p.keep) IN
         [i \in 1..Len(keep) |-> [name |-> keep[i].name, value |-> keep[i].value]]
    ELSE Append(params, [name |-> name, value |-> value])

\* requestUrl.searchParams.forEach((value, key) => callbackUrl.searchParams.set(key, value))
RECURSIVE CopyParams(_)
CopyParams(params) ==
    IF params = << >> THEN << >>
    ELSE SearchParamsSet(CopyParams(SubSeq(params, 1, Len(params) - 1)),
                         params[Len(params)].name, params[Len(params)].value)

\* the response of GET /
RootResponse(origin, params) ==
    IF \/ Truthy(SearchParamsGet(params, "code"))
       \/ Truthy(SearchParamsGet(params, "token"))
       \/ Truthy(SearchParamsGet(params, "access_token"))
    THEN [kind |-> "redirect",
          location |-> URL(AuthCallback, origin) @@ [query |-> CopyParams(params)]]
    ELSE [kind |-> "next",
          location |-> [origin |-> origin, path |-> <<"/">>, query |-> params]]

\* GET /
RootGET(params) ==
    /\ last' = Reply("root", NULL, RootResponse(AppOrigin, params).kind,
                     [origin |-> AppOrigin, params |-> params,
                      response |-> RootResponse(AppOrigin, params)])
    /\ UNCHANGED <<users, actions, issued, now, tables, pc, hist>>

-----------------------------------------------------------------------------
(* Specification SpecRoot: requests to / over query strings of up to       *)
(* MaxParams parameters                                                    *)

MaxParams == 2

ParamNames == {"code", "token", "access_token", "type"}

ParamValues == {<< >>, <<"a">>, <<"b">>}

Params == [name : ParamNames, value : ParamValues]

Queries == UNION {[1..n -> Params] : n \in 0..MaxParams}

NextRoot == \E params \in Queries : RootGET(params)

SpecRoot == Init /\ [][NextRoot]_vars

\* C29: a request to / that carries code, token or access_token is answered
\* with a redirect to /auth/callback on its origin whose query string holds
\* every parameter of the request with its value; a request with none of
\* the three is passed on without a redirect.
C29_RootForwardsAuthRedirects ==
    last.op = "root" =>
        LET params == last.body.params
            r == last.body.response
            carries == \E i \in 1..Len(params) :
                          params[i].name \in {"code", "token", "access_token"} IN
        /\ carries =>
              /\ r.kind = "redirect"
              /\ r.location.origin = last.body.origin
              /\ r.location.path = AuthCallback
              /\ \A i \in 1..Len(params) :
                    \E j \in 1..Len(r.location.query) : r.location.query[j] = params[i]
        /\ ~carries => r.kind = "next"

====
